---- MODULE Spec2Model ----
(***************************************************************************)
(* Cache-with-fallback orchestration of the financial dashboard:           *)
(* CacheService (app/services/cache.py), DataService                       *)
(* (app/services/data_service.py), and the adapters' calls under           *)
(* retry_with_backoff (app/utils/retry.py, app/api).                       *)
(*                                                                         *)
(* Time is the wall clock in minutes.  A cache file is modelled by what    *)
(* json.load and datetime.fromisoformat make of its content.  A Python     *)
(* dict is a function from its keys to its values, {**a, k: v} is          *)
(* (k :> v) @@ a.                                                          *)
(***************************************************************************)
EXTENDS Integers, Sequences, FiniteSets, TLC

VARIABLES
    files,               \* cache directory: path -> content of the file
    now,                 \* datetime.now(), minutes
    BACKGROUND_REFRESH,  \* config.BACKGROUND_REFRESH
    CACHE_TTL_MINUTES,   \* config.CACHE_TTL_MINUTES
    CACHE_MAX_AGE_HOURS, \* config.CACHE_MAX_AGE_HOURS
    last,                \* the most recent call: operation, arguments, outcome
    inflight,            \* the adapter call in progress: its retry_with_backoff runs
    job,                 \* scripts/refresh_cache.py: ticker -> its refresh_ticker task
    writers,             \* threads and processes that write the directory
    shaping              \* a data-shaping call of an adapter: arguments and result

vars == <<files, now, BACKGROUND_REFRESH, CACHE_TTL_MINUTES, CACHE_MAX_AGE_HOURS, last,
          inflight, job, writers, shaping>>

(***************************************************************************)
(* Bounds of the model.                                                    *)
(***************************************************************************)
\* minutes the clock advances in one Tick
TickMinutes == 45
\* number of Ticks
MaxTicks == 2
\* damaged files in the directory at any one time
MaxCorrupt == 1
\* largest value of max_retries
MaxRetries == 3
\* largest value of max_retries in the gather of refresh_ticker
MaxConcurrentRetries == 1
\* longest list of articles given to _deduplicate_articles
MaxArticles == 3
\* longest list of results given to _transform_response
MaxResults == 3

MinutesPerHour == 60
SecondsPerMinute == 60
SecondsPerHour == 3600
SecondsPerDay == 86400
\* the articles Step 3 of _deduplicate_articles keeps of one source
MaxPerSource == 2
\* config.PRICE_CHART_BUFFER_PCT, in percent
PRICE_CHART_BUFFER_PCT == 10

\* values of CACHE_TTL_MINUTES and CACHE_MAX_AGE_HOURS the environment may set
TTLChoices == {10, 90}
MaxAgeChoices == {1}

TICKERS == {<<"NFLX">>}

RELATED_STOCKS(ticker) == {"DIS"}

(***************************************************************************)
(* Payloads.                                                               *)
(***************************************************************************)
EmptyDict == <<>>

None == "None"

\* what the upstream answers at minute t
PricePayloads(ticker, t) == {[ticker |-> ticker, current_price |-> 100 + t]}

NewsPayloads(ticker, t) == {[ticker |-> ticker, articles |-> <<"article", t>>]}

InsightPayloads(ticker, t) == {[ticker |-> ticker, insight |-> <<"insight", t>>]}

\* a non-empty basket: related ticker -> quote
RelatedPayloads(ticker, t) ==
    {[r \in S |-> 100 + t] : S \in (SUBSET RELATED_STOCKS(ticker)) \ {{}}}

(***************************************************************************)
(* CacheService                                                            *)
(***************************************************************************)
_get_cache_path_by_ticker(cache_type, ticker) == <<"cache", "_">> \o ticker \o <<".json">>

_get_cache_path(cache_type, ticker) == cache_type \o <<"_">> \o ticker \o <<".json">>

related_key(ticker) == <<"related", "_">> \o ticker

\* the (cache_type, key) pairs DataService and the refresh job use
CacheKeys ==
    UNION {{<<(<<"polygon">>), t>>, <<(<<"news">>), t>>, <<(<<"insights">>), t>>,
            <<(<<"related">>), related_key(t)>>} : t \in TICKERS}

Paths == {_get_cache_path(k[1], k[2]) : k \in CacheKeys}

NoFile ==
    [shape |-> "absent", ts_kind |-> "missing", timestamp |-> 0,
     has_data |-> FALSE, data |-> EmptyDict, source |-> ""]

\* what set() writes: {"data": data, "timestamp": ..., "source": ...}
Entry(data, timestamp, source) ==
    [shape |-> "object", ts_kind |-> "iso", timestamp |-> timestamp,
     has_data |-> TRUE, data |-> data, source |-> source]

WellFormed(rec) == rec.shape = "object" /\ rec.ts_kind = "iso" /\ rec.has_data

exists(fs, path) == fs[path].shape # "absent"

\* json.load(f) then datetime.fromisoformat(cached["timestamp"]):
\* the exception raised, or "ok"
load_timestamp(rec) ==
    CASE rec.shape = "badjson" -> "JSONDecodeError"
      [] rec.shape = "notobject" -> "TypeError"
      [] rec.ts_kind = "missing" -> "KeyError"
      [] rec.ts_kind = "invalid" -> "ValueError"
      [] OTHER -> "ok"

\* except (json.JSONDecodeError, KeyError) of the readers
ReaderCatches == {"JSONDecodeError", "KeyError"}

\* except (json.JSONDecodeError, KeyError, OSError) of the sweep
CleanupCatches == {"JSONDecodeError", "KeyError", "OSError"}

\* a returned value, None, or a raised exception
RetValue(v) == [tag |-> "value", value |-> v, exc |-> ""]
RetNone == [tag |-> "None", value |-> EmptyDict, exc |-> ""]
RetRaise(e) == [tag |-> "raise", value |-> EmptyDict, exc |-> e]

_format_age(age) ==
    LET total_seconds == age * SecondsPerMinute IN
    IF total_seconds < SecondsPerMinute THEN ToString(total_seconds) \o "s ago"
    ELSE IF total_seconds < SecondsPerHour
         THEN ToString(total_seconds \div SecondsPerMinute) \o "m ago"
    ELSE IF total_seconds < SecondsPerDay
         THEN ToString(total_seconds \div SecondsPerHour) \o "h ago"
    ELSE ToString(total_seconds \div SecondsPerDay) \o "d ago"

get_fresh_seconds(fs, t, ttl, cache_type, ticker) ==
    LET rec == fs[_get_cache_path(cache_type, ticker)]
        e == load_timestamp(rec)
    IN IF rec.shape = "absent" THEN RetNone
       ELSE IF e = "ok"
            THEN IF (t - rec.timestamp) * SecondsPerMinute <= ttl THEN RetValue(rec)
                 ELSE RetNone
       ELSE IF e \in ReaderCatches THEN RetNone
       ELSE RetRaise(e)

get_fresh(fs, t, ttl, cache_type, ticker) ==
    LET rec == fs[_get_cache_path(cache_type, ticker)]
        e == load_timestamp(rec)
    IN IF rec.shape = "absent" THEN RetNone
       ELSE IF e = "ok"
            THEN IF t - rec.timestamp <= ttl THEN RetValue(rec) ELSE RetNone
       ELSE IF e \in ReaderCatches THEN RetNone
       ELSE RetRaise(e)

get_stale(fs, t, cache_type, ticker) ==
    LET rec == fs[_get_cache_path(cache_type, ticker)]
        e == load_timestamp(rec)
    IN IF rec.shape = "absent" THEN RetNone
       ELSE IF e = "ok" THEN RetValue([rec EXCEPT !.source = "fallback"])
       ELSE IF e \in ReaderCatches THEN RetNone
       ELSE RetRaise(e)

get_age(fs, t, cache_type, ticker) ==
    LET rec == fs[_get_cache_path(cache_type, ticker)]
        e == load_timestamp(rec)
    IN IF rec.shape = "absent" THEN RetNone
       ELSE IF e = "ok" THEN RetValue(_format_age(t - rec.timestamp))
       ELSE IF e \in ReaderCatches THEN RetNone
       ELSE RetRaise(e)

\* the paths of the directory, in one order
PathSeq ==
    CHOOSE o \in [1..Cardinality(Paths) -> Paths] :
        \A i, j \in 1..Cardinality(Paths) : o[i] = o[j] => i = j

\* the orders in which cache_dir.glob("*.json") may yield the files
glob(fs) ==
    LET present == {p \in Paths : exists(fs, p)}
        n == Cardinality(present)
    IN {o \in [1..n -> present] : \A i, j \in 1..n : o[i] = o[j] => i = j}

cutoff_minutes(t, max_age_hours) == t - max_age_hours

\* cutoff = datetime.now() - timedelta(hours=config.CACHE_MAX_AGE_HOURS)
cutoff(t, max_age_hours) == t - max_age_hours * MinutesPerHour

\* the loop of _cleanup over the files in the order given; a file whose
\* exception the except clause does not name ends the loop and the call
RECURSIVE sweep(_, _, _, _)
sweep(fs, t, max_age_hours, order) ==
    IF order = <<>> THEN [files |-> fs, exc |-> ""]
    ELSE LET cache_file == Head(order)
             rec == fs[cache_file]
             e == load_timestamp(rec)
             unlinked == [fs EXCEPT ![cache_file] = NoFile]
         IN IF e = "ok"
            THEN IF rec.timestamp < cutoff(t, max_age_hours)
                 THEN sweep(unlinked, t, max_age_hours, Tail(order))
                 ELSE sweep(fs, t, max_age_hours, Tail(order))
            ELSE IF e \in CleanupCatches
                 THEN sweep(unlinked, t, max_age_hours, Tail(order))
            ELSE [files |-> fs, exc |-> e]

_cleanup_no_retention(fs, t, max_age_hours) ==
    {sweep(fs, t, 0, o) : o \in glob(fs)}

\* the outcomes of _cleanup: the directory afterwards and the exception that
\* left it, if any.  When no file raises past the except clause the outcome
\* is the same in every order, and one order is swept.
_cleanup(fs, t, max_age_hours) ==
    LET escapes == \E p \in Paths :
                      /\ exists(fs, p)
                      /\ load_timestamp(fs[p]) \notin CleanupCatches \cup {"ok"}
    IN IF escapes
       THEN {sweep(fs, t, max_age_hours, o) : o \in glob(fs)}
       ELSE {sweep(fs, t, max_age_hours, SelectSeq(PathSeq, LAMBDA p : exists(fs, p)))}

set_fallback_source(fs, t, max_age_hours, cache_type, ticker, data) ==
    LET written == [fs EXCEPT ![_get_cache_path(cache_type, ticker)] =
                                   Entry(data, t, "fallback")]
    IN _cleanup(written, t, max_age_hours)

\* the outcomes of set(): the file is written, then the directory is swept
set(fs, t, max_age_hours, cache_type, ticker, data) ==
    LET written == [fs EXCEPT ![_get_cache_path(cache_type, ticker)] = Entry(data, t, "api")]
    IN _cleanup(written, t, max_age_hours)

(***************************************************************************)
(* Source Adapters, as DataService sees them: the call wrapped by          *)
(* retry_with_backoff either returns a payload or raises its last error.   *)
(***************************************************************************)
FailureClasses == {"transient", "rate_limited", "client_error", "unclassified"}

Fetched(adapter, data) == [adapter |-> adapter, ok |-> TRUE, data |-> data, error |-> ""]
Failed(adapter, error) == [adapter |-> adapter, ok |-> FALSE, data |-> EmptyDict, error |-> error]

polygon_get_stock_data(ticker, t) ==
    {Fetched("polygon.get_stock_data", d) : d \in PricePayloads(ticker, t)}
    \cup {Failed("polygon.get_stock_data", e) : e \in FailureClasses}

news_get_news(ticker, t) ==
    {Fetched("news.get_news", d) : d \in NewsPayloads(ticker, t)}
    \cup {Failed("news.get_news", e) : e \in FailureClasses}

\* the completion is the model's answer to the prompt built from price_data
\* and news_data
openai_generate_insights(ticker, price_data, news_data, t) ==
    {Fetched("openai.generate_insights", d) : d \in InsightPayloads(ticker, t)}
    \cup {Failed("openai.generate_insights", e) : e \in FailureClasses}

\* fetch_ticker catches every exception of its request and returns
\* (ticker, None); the basket holds the tickers whose request succeeded
polygon_get_related_stocks(tickers, t) ==
    {Fetched("polygon.get_related_stocks",
             [r \in {u \in tickers : req[u] = "ok"} |-> 100 + t])
       : req \in [tickers -> {"ok"} \cup FailureClasses]}

(***************************************************************************)
(* DataService.  Every operation yields the set of its possible outcomes:  *)
(* the directory afterwards, what the call returned or raised, and the     *)
(* adapter calls it made, in order.                                        *)
(***************************************************************************)
Outcome(fs, ret, called) == [files |-> fs, ret |-> ret, called |-> called]

serve_cached_flag_set(fs, t, cache_type, cache_key, cached, flag, value) ==
    LET age == get_age(fs, t, cache_type, cache_key) IN
    IF ~cached.has_data THEN RetRaise("KeyError")
    ELSE IF age.tag = "raise" THEN age
    ELSE RetValue(("data_age" :> (IF age.tag = "value" THEN age.value ELSE None))
                  @@ (flag :> TRUE) @@ cached.data)

\* {**cached["data"], "data_age": get_age(...), flag: value}
serve_cached(fs, t, cache_type, cache_key, cached, flag, value) ==
    LET age == get_age(fs, t, cache_type, cache_key) IN
    IF ~cached.has_data THEN RetRaise("KeyError")
    ELSE IF age.tag = "raise" THEN age
    ELSE RetValue(("data_age" :> (IF age.tag = "value" THEN age.value ELSE None))
                  @@ (flag :> value) @@ cached.data)

\* {**data, "data_age": None, flag: value}
serve_live(data, flag, value) ==
    RetValue(("data_age" :> None) @@ (flag :> value) @@ data)

stale_or_none_within_ttl(fs, t, cache_type, cache_key) ==
    LET fallback == get_fresh(fs, t, CACHE_TTL_MINUTES, cache_type, cache_key) IN
    IF fallback.tag = "value"
    THEN serve_cached(fs, t, cache_type, cache_key, fallback.value, "is_fallback", TRUE)
    ELSE fallback

\* fallback = get_stale(...); if fallback: return {...}; return None
stale_or_none(fs, t, cache_type, cache_key) ==
    LET fallback == get_stale(fs, t, cache_type, cache_key) IN
    IF fallback.tag = "value"
    THEN serve_cached(fs, t, cache_type, cache_key, fallback.value, "is_fallback", TRUE)
    ELSE fallback

fetch_from_api_sweeping(fs, t, cache_type, cache_key, fetch_fn) ==
    UNION {
      IF fetched.ok
      THEN {IF s.exc = ""
            THEN Outcome(s.files, serve_live(fetched.data, "is_fallback", FALSE),
                         <<fetched>>)
            ELSE Outcome(s.files, stale_or_none(s.files, t, cache_type, cache_key),
                         <<fetched>>)
              : s \in set(fs, t, CACHE_MAX_AGE_HOURS, cache_type, cache_key, fetched.data)}
      ELSE {Outcome(s.files, stale_or_none(s.files, t, cache_type, cache_key), <<fetched>>)
              : s \in _cleanup(fs, t, CACHE_MAX_AGE_HOURS)}
    : fetched \in fetch_fn}

\* lines 87-104 of _fetch_with_cache: the call of the API and its except clause
fetch_from_api(fs, t, cache_type, cache_key, fetch_fn) ==
    UNION {
      IF fetched.ok
      THEN {IF s.exc = ""
            THEN Outcome(s.files, serve_live(fetched.data, "is_fallback", FALSE),
                         <<fetched>>)
            ELSE Outcome(s.files, stale_or_none(s.files, t, cache_type, cache_key),
                         <<fetched>>)
              : s \in set(fs, t, CACHE_MAX_AGE_HOURS, cache_type, cache_key, fetched.data)}
      ELSE {Outcome(fs, stale_or_none(fs, t, cache_type, cache_key), <<fetched>>)}
    : fetched \in fetch_fn}

_fetch_with_cache_any_mode(fs, t, cache_type, cache_key, fetch_fn) ==
    LET cached == get_fresh(fs, t, CACHE_TTL_MINUTES, cache_type, cache_key) IN
    IF cached.tag = "raise" THEN {Outcome(fs, cached, <<>>)}
    ELSE IF cached.tag = "value"
    THEN {Outcome(fs, serve_cached(fs, t, cache_type, cache_key, cached.value,
                                   "is_fallback", FALSE), <<>>)}
    ELSE fetch_from_api(fs, t, cache_type, cache_key, fetch_fn)

_fetch_with_cache(fs, t, cache_type, cache_key, fetch_fn) ==
    LET cached == get_fresh(fs, t, CACHE_TTL_MINUTES, cache_type, cache_key) IN
    IF cached.tag = "raise" THEN {Outcome(fs, cached, <<>>)}
    ELSE IF cached.tag = "value"
    THEN {Outcome(fs, serve_cached(fs, t, cache_type, cache_key, cached.value,
                                   "is_fallback", FALSE), <<>>)}
    ELSE IF BACKGROUND_REFRESH
    THEN {Outcome(fs, stale_or_none(fs, t, cache_type, cache_key), <<>>)}
    ELSE fetch_from_api(fs, t, cache_type, cache_key, fetch_fn)

get_stock_data(fs, t, ticker) ==
    _fetch_with_cache(fs, t, <<"polygon">>, ticker, polygon_get_stock_data(ticker, t))

get_news(fs, t, ticker) ==
    _fetch_with_cache(fs, t, <<"news">>, ticker, news_get_news(ticker, t))

generate_insights_without_inputs(fs, t, ticker) ==
    UNION {
      IF p.ret.tag = "raise" THEN {Outcome(p.files, RetNone, p.called)}
      ELSE UNION {
        LET called == p.called \o n.called IN
        IF n.ret.tag = "raise"
        THEN {Outcome(n.files, RetNone, called)}
        ELSE UNION {
          IF ~g.ok THEN {Outcome(n.files, RetNone, Append(called, g))}
          ELSE {IF s.exc = ""
                THEN Outcome(s.files, serve_live(g.data, "is_cached", FALSE),
                             Append(called, g))
                ELSE Outcome(s.files, RetNone, Append(called, g))
                  : s \in set(n.files, t, CACHE_MAX_AGE_HOURS, <<"insights">>, ticker,
                              g.data)}
          : g \in openai_generate_insights(ticker, p.ret.value, n.ret.value, t)}
        : n \in get_news(p.files, t, ticker)}
      : p \in get_stock_data(fs, t, ticker)}

\* lines 145-160 of get_insights: the try block that generates an insight
generate_insights(fs, t, ticker) ==
    UNION {
      IF p.ret.tag = "raise" THEN {Outcome(p.files, RetNone, p.called)}
      ELSE UNION {
        LET called == p.called \o n.called IN
        IF n.ret.tag = "raise" \/ p.ret.tag = "None" \/ n.ret.tag = "None"
        THEN {Outcome(n.files, RetNone, called)}
        ELSE UNION {
          IF ~g.ok THEN {Outcome(n.files, RetNone, Append(called, g))}
          ELSE {IF s.exc = ""
                THEN Outcome(s.files, serve_live(g.data, "is_cached", FALSE),
                             Append(called, g))
                ELSE Outcome(s.files, RetNone, Append(called, g))
                  : s \in set(n.files, t, CACHE_MAX_AGE_HOURS, <<"insights">>, ticker,
                              g.data)}
          : g \in openai_generate_insights(ticker, p.ret.value, n.ret.value, t)}
        : n \in get_news(p.files, t, ticker)}
      : p \in get_stock_data(fs, t, ticker)}

get_insights_force_skips_cache(fs, t, ticker, force_refresh) ==
    LET cache_type == <<"insights">>
        cached == get_stale(fs, t, cache_type, ticker)
        check == ~force_refresh
    IN IF check /\ cached.tag = "raise" THEN {Outcome(fs, cached, <<>>)}
       ELSE IF check /\ cached.tag = "value"
       THEN {Outcome(fs, serve_cached(fs, t, cache_type, ticker, cached.value,
                                      "is_cached", TRUE), <<>>)}
       ELSE IF BACKGROUND_REFRESH THEN {Outcome(fs, RetNone, <<>>)}
       ELSE generate_insights(fs, t, ticker)

get_insights_any_mode(fs, t, ticker, force_refresh) ==
    LET cache_type == <<"insights">>
        cached == get_stale(fs, t, cache_type, ticker)
        check == ~force_refresh \/ BACKGROUND_REFRESH
    IN IF check /\ cached.tag = "raise" THEN {Outcome(fs, cached, <<>>)}
       ELSE IF check /\ cached.tag = "value"
       THEN {Outcome(fs, serve_cached(fs, t, cache_type, ticker, cached.value,
                                      "is_cached", TRUE), <<>>)}
       ELSE generate_insights(fs, t, ticker)

get_insights(fs, t, ticker, force_refresh) ==
    LET cache_type == <<"insights">>
        cached == get_stale(fs, t, cache_type, ticker)
        check == ~force_refresh \/ BACKGROUND_REFRESH
    IN IF check /\ cached.tag = "raise" THEN {Outcome(fs, cached, <<>>)}
       ELSE IF check /\ cached.tag = "value"
       THEN {Outcome(fs, serve_cached(fs, t, cache_type, ticker, cached.value,
                                      "is_cached", TRUE), <<>>)}
       ELSE IF BACKGROUND_REFRESH THEN {Outcome(fs, RetNone, <<>>)}
       ELSE generate_insights(fs, t, ticker)

\* fallback = get_stale(...); if fallback: return fallback["data"]; return {}
stale_data_or_empty(fs, t, cache_type, cache_key) ==
    LET fallback == get_stale(fs, t, cache_type, cache_key) IN
    IF fallback.tag = "raise" THEN fallback
    ELSE IF fallback.tag = "value"
    THEN IF fallback.value.has_data THEN RetValue(fallback.value.data)
         ELSE RetRaise("KeyError")
    ELSE RetValue(EmptyDict)

get_related_stocks(fs, t, ticker) ==
    LET cache_type == <<"related">>
        cache_key == related_key(ticker)
        cached == get_fresh(fs, t, CACHE_TTL_MINUTES, cache_type, cache_key)
        related_tickers == RELATED_STOCKS(ticker)
        \* a raise inside the try block is caught and the stale read is made again
        retried(f, called) == Outcome(f, stale_data_or_empty(f, t, cache_type, cache_key),
                                      called)
    IN IF cached.tag = "raise" THEN {Outcome(fs, cached, <<>>)}
       ELSE IF cached.tag = "value"
       THEN {Outcome(fs, IF cached.value.has_data THEN RetValue(cached.value.data)
                         ELSE RetRaise("KeyError"), <<>>)}
       ELSE IF BACKGROUND_REFRESH
       THEN {Outcome(fs, stale_data_or_empty(fs, t, cache_type, cache_key), <<>>)}
       ELSE IF related_tickers = {} THEN {Outcome(fs, RetValue(EmptyDict), <<>>)}
       ELSE UNION {
              IF fetched.data # EmptyDict
              THEN {IF s.exc = ""
                    THEN Outcome(s.files, RetValue(fetched.data), <<fetched>>)
                    ELSE retried(s.files, <<fetched>>)
                      : s \in set(fs, t, CACHE_MAX_AGE_HOURS, cache_type, cache_key,
                                  fetched.data)}
              ELSE {retried(fs, <<fetched>>)}
            : fetched \in polygon_get_related_stocks(related_tickers, t)}

(***************************************************************************)
(* retry_with_backoff (app/utils/retry.py) around the adapters' functions. *)
(* An exception is its class and, for a status error, the HTTP status.     *)
(* Delays are in milliseconds.                                             *)
(***************************************************************************)
\* 15 s: the unit of the delay after a 429
RateLimitUnit == 15000
\* config.RETRY_BACKOFF_BASE, 0.5 s
RETRY_BACKOFF_BASE == 500
\* status >= 500 is a server error
ServerErrorFloor == 500
\* HTTP 429 Too Many Requests
TooManyRequests == 429

Error(cls, status) == [cls |-> cls, status |-> status]

NoError == Error("", 0)

\* the classes of httpx.HTTPError that a request raises
HTTPError == {"TimeoutException", "ConnectError", "HTTPStatusError"}

\* the classes of openai.APIError that a completion raises
APIError == {"APIConnectionError", "APIStatusError"}

\* statuses that raise_for_status() and the OpenAI client turn into an error
ErrorStatuses == {401, 429, 500}

\* the decorated functions
Funcs == {"polygon.get_stock_data", "news.get_news", "openai.generate_insights",
          "polygon.fetch_ticker"}

\* the retry_on argument of the function's decorator
retry_on(func) == IF func = "openai.generate_insights" THEN APIError ELSE HTTPError

\* what one upstream request of the function does: it answers, it answers
\* with fewer than two data points (fetch_ticker), or it raises; the last
\* error of each list is raised by the handling of the answer, not by the
\* transport
Answered == [kind |-> "ok", error |-> NoError]
AnsweredShort == [kind |-> "short", error |-> NoError]
Raising(e) == [kind |-> "error", error |-> e]

Requests(func) ==
    LET httpx_errors == {Error("TimeoutException", 0), Error("ConnectError", 0),
                         Error("JSONDecodeError", 0)}
                        \cup {Error("HTTPStatusError", st) : st \in ErrorStatuses}
        openai_errors == {Error("APIConnectionError", 0), Error("AttributeError", 0)}
                         \cup {Error("APIStatusError", st) : st \in ErrorStatuses}
    IN {Answered}
       \cup (IF func = "polygon.fetch_ticker" THEN {AnsweredShort} ELSE {})
       \cup {Raising(e) : e \in IF func = "openai.generate_insights" THEN openai_errors
                                ELSE httpx_errors}

Returned(v) == [tag |-> "return", value |-> v, error |-> NoError]
Raised(e) == [tag |-> "raise", value |-> <<>>, error |-> e]
Pending == [tag |-> "pending", value |-> <<>>, error |-> NoError]

\* Optional[dict] of fetch_ticker's tuple: <<>> is None
Some(v) == <<v>>

\* one invocation of the undecorated function: fetch_ticker catches every
\* exception of its request and returns (ticker, None)
invoke(func, arg, req, t) ==
    CASE func = "polygon.fetch_ticker" ->
           IF req.kind = "ok" THEN Returned(<<arg, Some(100 + t)>>)
           ELSE Returned(<<arg, <<>>>>)
      [] req.kind = "error" -> Raised(req.error)
      [] func = "polygon.get_stock_data" ->
           Returned(CHOOSE d \in PricePayloads(arg, t) : TRUE)
      [] func = "news.get_news" -> Returned(CHOOSE d \in NewsPayloads(arg, t) : TRUE)
      [] OTHER -> Returned(CHOOSE d \in InsightPayloads(arg, t) : TRUE)

_should_retry(exception) ==
    IF exception.cls \in {"TimeoutException", "ConnectError"} THEN TRUE
    ELSE IF exception.cls = "HTTPStatusError"
         THEN exception.status = TooManyRequests \/ exception.status >= ServerErrorFloor
    ELSE TRUE

_get_retry_delay_exponential(exception, attempt, base_delay) ==
    base_delay * (2 ^ attempt)

_get_retry_delay_linear(exception, attempt, base_delay) ==
    IF exception.cls = "HTTPStatusError" /\ exception.status = TooManyRequests
    THEN RateLimitUnit * (attempt + 1)
    ELSE base_delay * (attempt + 1)

_get_retry_delay(exception, attempt, base_delay) ==
    IF exception.cls = "HTTPStatusError" /\ exception.status = TooManyRequests
    THEN RateLimitUnit * (attempt + 1)
    ELSE base_delay * (2 ^ attempt)

\* one run of wrapper(): the attempt of the loop it is in, where it is (about
\* to call func, asleep, done), the requests its invocations made, the delays
\* it slept, last_exception and what it returned or raised
NewRun(func, arg) ==
    [func |-> func, arg |-> arg, attempt |-> 0, pc |-> "call", requests |-> <<>>,
     sleeps |-> <<>>, last_exception |-> NoError, ret |-> Pending]

wrapper_attempt_once_more(r, max_retries, req, t) ==
    LET res == invoke(r.func, r.arg, req, t)
        seen == [r EXCEPT !.requests = Append(@, req)]
    IN IF res.tag = "return" THEN [seen EXCEPT !.pc = "done", !.ret = res]
       ELSE IF res.error.cls \notin retry_on(r.func)
            THEN [seen EXCEPT !.pc = "done", !.ret = res]
       ELSE IF ~_should_retry(res.error)
            THEN [seen EXCEPT !.last_exception = res.error, !.pc = "done", !.ret = res]
       ELSE IF r.attempt <= max_retries
            THEN [seen EXCEPT !.last_exception = res.error, !.pc = "sleep",
                              !.sleeps = Append(@, _get_retry_delay(res.error, r.attempt,
                                                                    RETRY_BACKOFF_BASE))]
       ELSE [seen EXCEPT !.last_exception = res.error, !.pc = "done",
                         !.ret = Raised(res.error)]

\* one iteration of the loop of wrapper(), up to its await asyncio.sleep or
\* to the end of the run
wrapper_attempt(r, max_retries, req, t) ==
    LET res == invoke(r.func, r.arg, req, t)
        seen == [r EXCEPT !.requests = Append(@, req)]
    IN IF res.tag = "return" THEN [seen EXCEPT !.pc = "done", !.ret = res]
       ELSE IF res.error.cls \notin retry_on(r.func)
            THEN [seen EXCEPT !.pc = "done", !.ret = res]
       ELSE IF ~_should_retry(res.error)
            THEN [seen EXCEPT !.last_exception = res.error, !.pc = "done", !.ret = res]
       ELSE IF r.attempt < max_retries
            THEN [seen EXCEPT !.last_exception = res.error, !.pc = "sleep",
                              !.sleeps = Append(@, _get_retry_delay(res.error, r.attempt,
                                                                    RETRY_BACKOFF_BASE))]
       ELSE [seen EXCEPT !.last_exception = res.error, !.pc = "done",
                         !.ret = Raised(res.error)]

\* asyncio.sleep(delay) is over: the next iteration of the loop
wrapper_wake(r) == [r EXCEPT !.pc = "call", !.attempt = @ + 1]

\* the tickers polygon.get_related_stocks is called with
BasketTickers == {"DIS", "PARA", "WBD"}

results_all_or_nothing(runs) ==
    IF \E ticker \in DOMAIN runs : runs[ticker].ret.value[2] = <<>> THEN Returned(EmptyDict)
    ELSE Returned([ticker \in DOMAIN runs |-> runs[ticker].ret.value[2][1]])

\* await asyncio.gather(*tasks), then
\* {ticker: data for ticker, data in results_list if data is not None}
gather_results(runs) ==
    IF \E ticker \in DOMAIN runs : runs[ticker].ret.tag = "raise"
    THEN runs[CHOOSE ticker \in DOMAIN runs : runs[ticker].ret.tag = "raise"].ret
    ELSE Returned([ticker \in {u \in DOMAIN runs : runs[u].ret.value[2] # <<>>}
                     |-> runs[ticker].ret.value[2][1]])

\* the awaitables of the gather of refresh_ticker(ticker)
RefreshTasks == {"stock_data", "news_data", "related_data"}

\* await asyncio.gather(..., return_exceptions=True) of refresh_ticker: the
\* outcome of each awaitable, an exception in place of the value of one that
\* raised; related_data is what polygon.get_related_stocks makes of its task
refresh_results(runs) ==
    Returned([task \in RefreshTasks |->
                IF task = "related_data"
                THEN gather_results([ticker \in {runs[task].arg} |-> runs[task]])
                ELSE runs[task].ret])

(***************************************************************************)
(* scripts/refresh_cache.py                                                *)
(***************************************************************************)
\* the result of an awaitable that has not completed
NotFetched == [adapter |-> "", ok |-> FALSE, data |-> EmptyDict, error |-> ""]

\* a refresh_ticker task: where it is (not started, in its gather, in
\* openai.generate_insights, over), the results of its awaitables, the
\* cache types it called cache_service.set for, in order, the exception its
\* outer or inner except clause caught, and the price_data and news_data it
\* called openai.generate_insights with
NoTask ==
    [pc |-> "idle", stock_data |-> NotFetched, news_data |-> NotFetched,
     related_data |-> NotFetched, insights_data |-> NotFetched, sets |-> <<>>,
     caught |-> "", inputs |-> <<>>]

\* a result of the gather that is an exception is logged and replaced by
\* None
none_if_exception(result) == IF result.ok THEN result ELSE Failed(result.adapter, "")

\* cache_service.set(cache_type, key, data) inside a try block, after the
\* statements that led to the outcome o: nothing runs after an exception
then_set(o, t, max_age_hours, cache_type, key, data) ==
    IF o.exc # "" THEN {o}
    ELSE {[files |-> s.files, exc |-> s.exc, sets |-> Append(o.sets, cache_type)]
            : s \in set(o.files, t, max_age_hours, cache_type, key, data)}

\* refresh_ticker from the return of its gather to its next await or its
\* end: the three results are handled in order, inside one try block
handle_results(fs, t, max_age_hours, ticker, stock_data, news_data, related_data) ==
    LET start == {[files |-> fs, exc |-> "", sets |-> <<>>]}
        stock == IF stock_data.ok
                 THEN UNION {then_set(o, t, max_age_hours, <<"polygon">>, ticker,
                                      stock_data.data) : o \in start}
                 ELSE start
        news == IF news_data.ok
                THEN UNION {then_set(o, t, max_age_hours, <<"news">>, ticker,
                                     news_data.data) : o \in stock}
                ELSE stock
    IN IF related_data.ok /\ related_data.data # EmptyDict
       THEN UNION {then_set(o, t, max_age_hours, <<"related">>, related_key(ticker),
                            related_data.data) : o \in news}
       ELSE news

(***************************************************************************)
(* cache_service.set step by step, as threads and processes that share the *)
(* cache directory run it: the script thread of a Streamlit session in     *)
(* _fetch_with_cache (app/main.py, data_service.py), and the process of    *)
(* the refresh job that cron starts (scripts/refresh_cache.py).            *)
(***************************************************************************)
Writers == {"w1", "w2"}

\* a writer outside cache_service.set; inside, it has the path, the payload
\* and the timestamp of its call, and linked tells whether the file it
\* opened is still the one the directory names.  A thread in a read has the
\* operation and its key; listing is what glob gave a sweep and has not
\* been visited yet, ret what the operation returned or raised.
NoWrite ==
    [pc |-> "idle", caller |-> "", cache_type |-> <<>>, key |-> <<>>, data |-> EmptyDict,
     timestamp |-> 0, linked |-> FALSE, op |-> "", listing |-> {}, ret |-> RetNone]

\* the read operations of CacheService
ReadOps == {"get_fresh", "get_stale", "get_age"}

\* a read from its open(cache_path, "r") on, after cache_path.exists() was
\* true: open raises FileNotFoundError, which no except clause of the
\* readers names, when the file is gone
read_after_exists(fs, t, ttl, op, cache_type, key) ==
    IF ~exists(fs, _get_cache_path(cache_type, key)) THEN RetRaise("FileNotFoundError")
    ELSE IF op = "get_fresh" THEN get_fresh(fs, t, ttl, cache_type, key)
    ELSE IF op = "get_stale" THEN get_stale(fs, t, cache_type, key)
    ELSE get_age(fs, t, cache_type, key)

\* one iteration of the loop of _cleanup, on a file glob listed: the
\* directory afterwards and the exception that leaves the loop, if any.  On
\* a file that is gone open raises FileNotFoundError, an OSError, and the
\* unlink of the except clause raises it again.
sweep_file(fs, t, max_age_hours, cache_file) ==
    LET rec == fs[cache_file]
        e == load_timestamp(rec)
        unlinked == [fs EXCEPT ![cache_file] = NoFile]
    IN IF ~exists(fs, cache_file) THEN [files |-> fs, exc |-> "FileNotFoundError"]
       ELSE IF e = "ok"
            THEN IF rec.timestamp < cutoff(t, max_age_hours)
                 THEN [files |-> unlinked, exc |-> ""]
                 ELSE [files |-> fs, exc |-> ""]
       ELSE IF e \in CleanupCatches THEN [files |-> unlinked, exc |-> ""]
       ELSE [files |-> fs, exc |-> e]

\* open(cache_path, "w"): the file exists and is empty
Truncated == [NoFile EXCEPT !.shape = "badjson"]

set_open(fs, cache_type, key) ==
    [fs EXCEPT ![_get_cache_path(cache_type, key)] = Truncated]

\* json.dump(cached, f) and the close of f: the text goes to the file that
\* was opened, from its start.  A file that was unlinked meanwhile is no
\* longer in the directory; onto the text another writer has put there
\* since, the outcome is this writer's text alone or followed by the rest
\* of the other's.
set_dump(fs, writer) ==
    LET cache_path == _get_cache_path(writer.cache_type, writer.key)
        cached == Entry(writer.data, writer.timestamp, "api")
    IN IF ~writer.linked THEN {fs}
       ELSE IF fs[cache_path] = Truncated THEN {[fs EXCEPT ![cache_path] = cached]}
       ELSE {[fs EXCEPT ![cache_path] = cached], [fs EXCEPT ![cache_path] = Truncated]}

\* no adapter call is in progress
NoCall == [op |-> "idle", max_retries |-> 0, runs |-> <<>>, ret |-> Pending]

(***************************************************************************)
(* Data shaping of the adapters: NewsDataHubClient._deduplicate_articles   *)
(* (app/api/newsdatahub.py) and PolygonClient._transform_response          *)
(* (app/api/polygon.py).  A str is the sequence of its characters, each a  *)
(* string of length one.                                                   *)
(***************************************************************************)
\* ord() of the characters in use
ord == (" " :> 32) @@ ("1" :> 49) @@ ("2" :> 50) @@ ("A" :> 65) @@ ("O" :> 79)
       @@ ("R" :> 82) @@ ("a" :> 97) @@ ("b" :> 98) @@ ("c" :> 99)

\* str.lower() character by character
ascii_lower == ("A" :> "a") @@ ("O" :> "o") @@ ("R" :> "r")

lower(s) == [i \in DOMAIN s |-> IF s[i] \in DOMAIN ascii_lower THEN ascii_lower[s[i]]
                                                               ELSE s[i]]

RECURSIVE lstrip(_)
lstrip(s) == IF s # <<>> /\ Head(s) = " " THEN lstrip(Tail(s)) ELSE s

RECURSIVE rstrip(_)
rstrip(s) == IF s # <<>> /\ s[Len(s)] = " " THEN rstrip(SubSeq(s, 1, Len(s) - 1)) ELSE s

\* str.strip()
strip(s) == rstrip(lstrip(s))

\* the positions at which sub occurs in s
occurrences(sub, s) ==
    {i \in 1..(Len(s) - Len(sub) + 1) : SubSeq(s, i, i + Len(sub) - 1) = sub}

\* sub in s
contains(sub, s) == occurrences(sub, s) # {}

\* s.split(sep)
RECURSIVE split(_, _)
split(s, sep) ==
    IF ~contains(sep, s) THEN <<s>>
    ELSE LET i == CHOOSE i \in occurrences(sep, s) : \A j \in occurrences(sep, s) : i <= j
         IN  <<SubSeq(s, 1, i - 1)>> \o split(SubSeq(s, i + Len(sep), Len(s)), sep)

\* a < b of two str
RECURSIVE str_lt(_, _)
str_lt(a, b) ==
    IF b = <<>> THEN FALSE
    ELSE IF a = <<>> THEN TRUE
    ELSE IF Head(a) = Head(b) THEN str_lt(Tail(a), Tail(b))
    ELSE ord[Head(a)] < ord[Head(b)]

\* dict.get(key, default)
dict_get(d, key, default) == IF key \in DOMAIN d THEN d[key] ELSE default

pub_date(article) == dict_get(article, "pub_date", <<>>)

source_title(article) == dict_get(article, "source_title", "unknown")

\* the key of seen_headlines
headline(article) == strip(lower(dict_get(article, "title", <<>>)))

\* sorted(articles, key=pub_date, reverse=True): stable, equal keys keep their order
RECURSIVE sorted_by_pub_date(_)
sorted_by_pub_date(articles) ==
    IF articles = <<>> THEN <<>>
    ELSE LET rest == sorted_by_pub_date(SubSeq(articles, 1, Len(articles) - 1))
             x == articles[Len(articles)]
             before == SelectSeq(rest, LAMBDA y : ~str_lt(pub_date(y), pub_date(x)))
             after == SelectSeq(rest, LAMBDA y : str_lt(pub_date(y), pub_date(x)))
         IN  before \o <<x>> \o after

\* Step 1: the articles whose title holds one of the terms of search_term
relevant_articles(articles, search_term) ==
    LET OR == <<" ", "O", "R", " ">>
        parts == split(search_term, OR)
        search_terms == [i \in DOMAIN parts |-> lower(strip(parts[i]))]
    IN  SelectSeq(articles,
                  LAMBDA article :
                      \E i \in DOMAIN search_terms :
                          contains(search_terms[i], lower(dict_get(article, "title", <<>>))))

\* Step 2: the first article of every headline, in the order of the list
RECURSIVE unique_articles(_, _)
unique_articles(articles, seen_headlines) ==
    IF articles = <<>> THEN <<>>
    ELSE IF headline(Head(articles)) \in seen_headlines
         THEN unique_articles(Tail(articles), seen_headlines)
         ELSE <<Head(articles)>>
              \o unique_articles(Tail(articles), seen_headlines \cup {headline(Head(articles))})

\* the keys of by_source, in the order of their insertion
RECURSIVE sources_of(_, _)
sources_of(articles, seen) ==
    IF articles = <<>> THEN <<>>
    ELSE IF source_title(Head(articles)) \in seen
         THEN sources_of(Tail(articles), seen)
         ELSE <<source_title(Head(articles))>>
              \o sources_of(Tail(articles), seen \cup {source_title(Head(articles))})

\* Step 3: of every source its first MaxPerSource articles by pub_date, newest first
RECURSIVE per_source(_, _)
per_source(unique, sources) ==
    IF sources = <<>> THEN <<>>
    ELSE LET source_list == SelectSeq(unique, LAMBDA a : source_title(a) = Head(sources))
             sorted_list == sorted_by_pub_date(source_list)
         IN  SubSeq(sorted_list, 1, IF Len(sorted_list) < MaxPerSource
                                      THEN Len(sorted_list) ELSE MaxPerSource)
             \o per_source(unique, Tail(sources))

_deduplicate_articles(articles, search_term) ==
    LET relevant == relevant_articles(articles, search_term)
        unique == unique_articles(relevant, {})
        result == per_source(unique, sources_of(unique, {}))
    IN  sorted_by_pub_date(result)

\* datetime.fromtimestamp(ts): the day and the second of the day
fromtimestamp(ts) == [day |-> ts \div SecondsPerDay, second |-> ts % SecondsPerDay]

\* current_price is taken from the first result
_transform_response_from_first(data, ticker) ==
    LET results == dict_get(data, "results", <<>>)
        all_prices == {results[i].c : i \in DOMAIN results}
        min_price == CHOOSE p \in all_prices : \A q \in all_prices : p <= q
        max_price == CHOOSE p \in all_prices : \A q \in all_prices : p >= q
        price_range == max_price - min_price
        buffer == IF price_range > 0 THEN (price_range * PRICE_CHART_BUFFER_PCT) \div 100
                                     ELSE (max_price * PRICE_CHART_BUFFER_PCT) \div 100
    IN  [ticker |-> ticker,
         prices |-> [i \in DOMAIN results |->
                        [date |-> fromtimestamp(results[i].t \div 1000),
                         open |-> results[i].o, high |-> results[i].h,
                         low |-> results[i].l, close |-> results[i].c,
                         volume |-> results[i].v]],
         current_price |-> IF results # <<>> THEN Some(results[1].c) ELSE <<>>,
         previous_close |-> IF Len(results) > 1 THEN Some(results[Len(results) - 1].c)
                                                ELSE <<>>,
         price_range_min |-> IF results # <<>> THEN Some(min_price - buffer) ELSE <<>>,
         price_range_max |-> IF results # <<>> THEN Some(max_price + buffer) ELSE <<>>]

\* prices in cents, PRICE_CHART_BUFFER_PCT in percent; None is <<>>
_transform_response(data, ticker) ==
    LET results == dict_get(data, "results", <<>>)
        all_prices == {results[i].c : i \in DOMAIN results}
        min_price == CHOOSE p \in all_prices : \A q \in all_prices : p <= q
        max_price == CHOOSE p \in all_prices : \A q \in all_prices : p >= q
        price_range == max_price - min_price
        buffer == IF price_range > 0 THEN (price_range * PRICE_CHART_BUFFER_PCT) \div 100
                                     ELSE (max_price * PRICE_CHART_BUFFER_PCT) \div 100
    IN  [ticker |-> ticker,
         prices |-> [i \in DOMAIN results |->
                        [date |-> fromtimestamp(results[i].t \div 1000),
                         open |-> results[i].o, high |-> results[i].h,
                         low |-> results[i].l, close |-> results[i].c,
                         volume |-> results[i].v]],
         current_price |-> IF results # <<>> THEN Some(results[Len(results)].c) ELSE <<>>,
         previous_close |-> IF Len(results) > 1 THEN Some(results[Len(results) - 1].c)
                                                ELSE <<>>,
         price_range_min |-> IF results # <<>> THEN Some(min_price - buffer) ELSE <<>>,
         price_range_max |-> IF results # <<>> THEN Some(max_price + buffer) ELSE <<>>]

\* the lists of at most n elements of S
ListsUpTo(S, n) == UNION {[1..k -> S] : k \in 0..n}

\* titles, sources and dates of the articles a search returns; an article may
\* lack any of its fields
NewsArticles ==
    {[title |-> title, source_title |-> source, pub_date |-> date] :
        title \in {<<"A">>, <<" ", "a">>, <<"b">>, <<"c">>},
        source \in {"Reuters", "CNBC"},
        date \in {<<"1">>, <<"2">>}}
    \cup {[title |-> <<"b">>, pub_date |-> <<"2">>],
          [title |-> <<"c">>, source_title |-> "Reuters"],
          [source_title |-> "CNBC", pub_date |-> <<"1">>]}

\* search_term of config.TICKER_INFO: none, one term, two terms
SearchTerms == {<<>>, <<"a">>, <<"A", " ", "O", "R", " ", "b">>}

\* aggregate bars of the upstream response: t in milliseconds, prices in cents
PolygonResults ==
    {[t |-> t, o |-> c - 100, h |-> c + 100, l |-> c - 200, c |-> c, v |-> 1000000] :
        t \in {86400000, 172800000}, c \in {15000, 15100, 15200}}

\* the response body: with its results, or without the key
PolygonData ==
    {[results |-> results] : results \in ListsUpTo(PolygonResults, MaxResults)}
    \cup {[status |-> "OK"]}

\* no data-shaping call
NoShaping == [pc |-> "idle", fn |-> "", args |-> <<>>, ret |-> <<>>]

Shaping(fn, args) == [pc |-> "called", fn |-> fn, args |-> args, ret |-> <<>>]

(***************************************************************************)
(* State machine                                                           *)
(***************************************************************************)
Call(op, cache_type, key, force_refresh, data, ret, called) ==
    [op |-> op, cache_type |-> cache_type, key |-> key, force_refresh |-> force_refresh,
     data |-> data, ret |-> ret, called |-> called]

Idle == Call("idle", <<>>, <<>>, FALSE, EmptyDict, RetNone, <<>>)

\* what the refresh job writes under a key (scripts/refresh_cache.py)
RefreshPayloads(k, t) ==
    LET ticker == CHOOSE u \in TICKERS : k[2] \in {u, related_key(u)} IN
    CASE k[1] = <<"polygon">> -> PricePayloads(ticker, t)
      [] k[1] = <<"news">> -> NewsPayloads(ticker, t)
      [] k[1] = <<"insights">> -> InsightPayloads(ticker, t)
      [] OTHER -> RelatedPayloads(ticker, t)

\* contents of a damaged file: not JSON, JSON but no object, an object with
\* no or an unparsable "timestamp", an object with no "data"
Damaged(t) ==
    {[NoFile EXCEPT !.shape = "badjson"],
     [NoFile EXCEPT !.shape = "notobject"],
     [NoFile EXCEPT !.shape = "object", !.ts_kind = "missing", !.source = "api"],
     [NoFile EXCEPT !.shape = "object", !.ts_kind = "invalid", !.source = "api"],
     [NoFile EXCEPT !.shape = "object", !.ts_kind = "iso", !.timestamp = t,
                    !.source = "api"]}

IsDamaged(rec) == rec.shape # "absent" /\ ~WellFormed(rec)

TypeOK ==
    /\ now \in 0..(MaxTicks * TickMinutes)
    /\ BACKGROUND_REFRESH \in BOOLEAN
    /\ CACHE_TTL_MINUTES \in TTLChoices
    /\ CACHE_MAX_AGE_HOURS \in MaxAgeChoices
    /\ DOMAIN files = Paths
    /\ \A p \in Paths : files[p].shape \in {"absent", "badjson", "notobject", "object"}
    /\ inflight.op \in {"idle", "call", "gather", "refresh"}
    /\ inflight.max_retries \in 0..MaxRetries

\* the services after construction, before any call
Constructed ==
    /\ files = [p \in Paths |-> NoFile]
    /\ now = 0
    /\ BACKGROUND_REFRESH \in BOOLEAN
    /\ CACHE_TTL_MINUTES \in TTLChoices
    /\ CACHE_MAX_AGE_HOURS \in MaxAgeChoices
    /\ last = Idle
    /\ inflight = NoCall
    /\ job = [ticker \in TICKERS |-> NoTask]
    /\ writers = [w \in Writers |-> NoWrite]

Init == Constructed /\ shaping = NoShaping

Config == UNCHANGED <<BACKGROUND_REFRESH, CACHE_TTL_MINUTES, CACHE_MAX_AGE_HOURS>>

\* the wall clock advances
Tick ==
    /\ last = Idle
    /\ now + TickMinutes <= MaxTicks * TickMinutes
    /\ now' = now + TickMinutes
    /\ last' = Idle
    /\ UNCHANGED <<files, inflight, job, writers, shaping>>
    /\ Config

\* a file of the directory is damaged from outside the program
Corrupt(path, rec) ==
    /\ last = Idle
    /\ Cardinality({q \in Paths : IsDamaged(files[q])} \cup {path}) <= MaxCorrupt
    /\ files[path] # rec
    /\ files' = [files EXCEPT ![path] = rec]
    /\ last' = Idle
    /\ UNCHANGED <<now, inflight, job, writers, shaping>>
    /\ Config

\* cache_service.set(cache_type, key, data), as the refresh job calls it
Set(cache_type, key, data) ==
    /\ last = Idle
    /\ \E s \in set(files, now, CACHE_MAX_AGE_HOURS, cache_type, key, data) :
         /\ files' = s.files
         /\ last' = Call("set", cache_type, key, FALSE, data,
                         IF s.exc = "" THEN RetNone ELSE RetRaise(s.exc), <<>>)
    /\ UNCHANGED <<now, inflight, job, writers, shaping>>
    /\ Config

GetFresh(cache_type, key) ==
    /\ last = Idle
    /\ last' = Call("get_fresh", cache_type, key, FALSE, EmptyDict,
                    get_fresh(files, now, CACHE_TTL_MINUTES, cache_type, key), <<>>)
    /\ UNCHANGED <<files, now, inflight, job, writers, shaping>>
    /\ Config

GetStale(cache_type, key) ==
    /\ last = Idle
    /\ last' = Call("get_stale", cache_type, key, FALSE, EmptyDict,
                    get_stale(files, now, cache_type, key), <<>>)
    /\ UNCHANGED <<files, now, inflight, job, writers, shaping>>
    /\ Config

GetAge(cache_type, key) ==
    /\ last = Idle
    /\ last' = Call("get_age", cache_type, key, FALSE, EmptyDict,
                    get_age(files, now, cache_type, key), <<>>)
    /\ UNCHANGED <<files, now, inflight, job, writers, shaping>>
    /\ Config

\* a DataService operation: one of its outcomes happens
Serve(op, cache_type, key, force_refresh, outcomes) ==
    /\ last = Idle
    /\ \E o \in outcomes :
         /\ files' = o.files
         /\ last' = Call(op, cache_type, key, force_refresh, EmptyDict, o.ret, o.called)
    /\ UNCHANGED <<now, inflight, job, writers, shaping>>
    /\ Config

GetStockData(ticker) ==
    Serve("get_stock_data", <<"polygon">>, ticker, FALSE, get_stock_data(files, now, ticker))

GetNews(ticker) ==
    Serve("get_news", <<"news">>, ticker, FALSE, get_news(files, now, ticker))

GetInsights(ticker, force_refresh) ==
    Serve("get_insights", <<"insights">>, ticker, force_refresh,
          get_insights(files, now, ticker, force_refresh))

GetRelatedStocks(ticker) ==
    Serve("get_related_stocks", <<"related">>, related_key(ticker), FALSE,
          get_related_stocks(files, now, ticker))

\* the caller takes the outcome of its call
Return ==
    /\ last # Idle
    /\ last' = Idle
    /\ UNCHANGED <<files, now, inflight, job, writers, shaping>>
    /\ Config

\* the environment: the clock, damage to the directory, the refresh job's writes
Environment ==
    \/ Tick
    \/ Return
    \/ \E path \in Paths : \E rec \in Damaged(now) : Corrupt(path, rec)
    \/ \E k \in CacheKeys : \E data \in RefreshPayloads(k, now) : Set(k[1], k[2], data)

\* CacheService alone
NextCache ==
    \/ Environment
    \/ \E k \in CacheKeys : GetFresh(k[1], k[2])
    \/ \E k \in CacheKeys : GetStale(k[1], k[2])
    \/ \E k \in CacheKeys : GetAge(k[1], k[2])

SpecCache == Init /\ [][NextCache]_vars

\* DataService over CacheService
Next ==
    \/ Environment
    \/ \E ticker \in TICKERS : GetStockData(ticker)
    \/ \E ticker \in TICKERS : GetNews(ticker)
    \/ \E ticker \in TICKERS : \E force_refresh \in BOOLEAN : GetInsights(ticker, force_refresh)
    \/ \E ticker \in TICKERS : GetRelatedStocks(ticker)

Spec == Init /\ [][Next]_vars

(***************************************************************************)
(* The adapter layer alone: one decorated call, or the tasks of            *)
(* polygon.get_related_stocks, with config.MAX_RETRIES = max_retries.      *)
(***************************************************************************)
Quiet == UNCHANGED <<files, now, last, job, writers, shaping>> /\ Config

\* await func(...) of a decorated adapter function
StartCall(func, arg, max_retries) ==
    /\ inflight = NoCall
    /\ inflight' = [op |-> "call", max_retries |-> max_retries,
                    runs |-> (arg :> NewRun(func, arg)), ret |-> Pending]
    /\ Quiet

\* polygon.get_related_stocks(tickers): one fetch_ticker task per ticker
StartGather(tickers, max_retries) ==
    /\ inflight = NoCall
    /\ inflight' = [op |-> "gather", max_retries |-> max_retries,
                    runs |-> [ticker \in tickers |-> NewRun("polygon.fetch_ticker", ticker)],
                    ret |-> Pending]
    /\ Quiet

\* the three awaitables of refresh_ticker(ticker), launched together; the
\* basket of the ticker has one member, whose fetch_ticker task is the
\* related_data awaitable
StartRefreshGather(ticker, max_retries) ==
    /\ inflight = NoCall
    /\ inflight' = [op |-> "refresh", max_retries |-> max_retries,
                    runs |-> [task \in RefreshTasks |->
                                IF task = "stock_data"
                                THEN NewRun("polygon.get_stock_data", ticker)
                                ELSE IF task = "news_data" THEN NewRun("news.get_news", ticker)
                                ELSE NewRun("polygon.fetch_ticker",
                                            CHOOSE u \in RELATED_STOCKS(ticker) : TRUE)],
                    ret |-> Pending]
    /\ Quiet

Step_blocking(id) ==
    /\ inflight.op # "idle"
    /\ inflight.runs[id].pc # "done"
    /\ \A other \in DOMAIN inflight.runs \ {id} : inflight.runs[other].pc # "sleep"
    /\ LET r == inflight.runs[id] IN
       IF r.pc = "sleep"
       THEN inflight' = [inflight EXCEPT !.runs[id] = wrapper_wake(r)]
       ELSE \E req \in Requests(r.func) :
              inflight' = [inflight EXCEPT
                             !.runs[id] = wrapper_attempt(r, inflight.max_retries, req, now)]
    /\ Quiet

\* the event loop resumes one run: its sleep is over, or its request completes
Step(id) ==
    /\ inflight.op # "idle"
    /\ inflight.runs[id].pc # "done"
    /\ LET r == inflight.runs[id] IN
       IF r.pc = "sleep"
       THEN inflight' = [inflight EXCEPT !.runs[id] = wrapper_wake(r)]
       ELSE \E req \in Requests(r.func) :
              inflight' = [inflight EXCEPT
                             !.runs[id] = wrapper_attempt(r, inflight.max_retries, req, now)]
    /\ Quiet

\* every run is over: the call returns or raises
Finish ==
    /\ inflight.op # "idle"
    /\ inflight.ret = Pending
    /\ \A id \in DOMAIN inflight.runs : inflight.runs[id].pc = "done"
    /\ inflight' = [inflight EXCEPT
                      !.ret = IF inflight.op = "gather" THEN gather_results(inflight.runs)
                              ELSE IF inflight.op = "refresh"
                                   THEN refresh_results(inflight.runs)
                              ELSE inflight.runs[CHOOSE id \in DOMAIN inflight.runs : TRUE].ret]
    /\ Quiet

\* the caller takes the outcome
Collect ==
    /\ inflight.ret # Pending
    /\ inflight' = NoCall
    /\ Quiet

NextRetry ==
    \/ \E func \in Funcs \ {"polygon.fetch_ticker"} : \E ticker \in TICKERS :
         \E max_retries \in 0..MaxRetries : StartCall(func, ticker, max_retries)
    \/ \E tickers \in SUBSET BasketTickers :
         \E max_retries \in 0..MaxRetries : StartGather(tickers, max_retries)
    \/ \E ticker \in TICKERS :
         \E max_retries \in 0..MaxConcurrentRetries : StartRefreshGather(ticker, max_retries)
    \/ \E id \in DOMAIN inflight.runs : Step(id)
    \/ Finish
    \/ Collect

SpecRetry == Init /\ [][NextRetry]_vars

(***************************************************************************)
(* The refresh job: main() gathers one refresh_ticker task per ticker of   *)
(* config.TICKERS; the clock advances and files are damaged meanwhile.     *)
(***************************************************************************)
Still == UNCHANGED <<last, inflight, writers, shaping>> /\ Config

\* asyncio.run(main()): every refresh_ticker task starts its gather
StartJob ==
    /\ \A ticker \in TICKERS : job[ticker].pc \in {"idle", "done"}
    /\ job' = [ticker \in TICKERS |-> [NoTask EXCEPT !.pc = "gather"]]
    /\ UNCHANGED <<files, now>>
    /\ Still

GatherDone_always_generates(ticker) ==
    /\ job[ticker].pc = "gather"
    /\ \E stock_data \in polygon_get_stock_data(ticker, now) :
       \E news_data \in news_get_news(ticker, now) :
       \E related_data \in polygon_get_related_stocks(RELATED_STOCKS(ticker), now) :
       \E o \in handle_results(files, now, CACHE_MAX_AGE_HOURS, ticker,
                               stock_data, news_data, related_data) :
         /\ files' = o.files
         /\ job' = [job EXCEPT ![ticker] =
                      [@ EXCEPT !.stock_data = none_if_exception(stock_data),
                                !.news_data = none_if_exception(news_data),
                                !.related_data = related_data, !.sets = o.sets,
                                !.caught = o.exc,
                                !.pc = "generate"]]
    /\ UNCHANGED now
    /\ Still

\* the gather of refresh_ticker(ticker) returns and its results are handled
GatherDone(ticker) ==
    /\ job[ticker].pc = "gather"
    /\ \E stock_data \in polygon_get_stock_data(ticker, now) :
       \E news_data \in news_get_news(ticker, now) :
       \E related_data \in polygon_get_related_stocks(RELATED_STOCKS(ticker), now) :
       \E o \in handle_results(files, now, CACHE_MAX_AGE_HOURS, ticker,
                               stock_data, news_data, related_data) :
         /\ files' = o.files
         /\ job' = [job EXCEPT ![ticker] =
                      [@ EXCEPT !.stock_data = none_if_exception(stock_data),
                                !.news_data = none_if_exception(news_data),
                                !.related_data = related_data, !.sets = o.sets,
                                !.caught = o.exc,
                                !.pc = IF o.exc = "" /\ stock_data.ok /\ news_data.ok
                                       THEN "generate" ELSE "done"]]
    /\ UNCHANGED now
    /\ Still

\* openai.generate_insights of refresh_ticker(ticker) returns or raises,
\* inside the inner try block
InsightsDone(ticker) ==
    /\ job[ticker].pc = "generate"
    /\ \E insights_data \in openai_generate_insights(ticker, job[ticker].stock_data.data,
                                                      job[ticker].news_data.data, now) :
       \E o \in IF insights_data.ok
                THEN then_set([files |-> files, exc |-> "", sets |-> job[ticker].sets], now,
                              CACHE_MAX_AGE_HOURS, <<"insights">>, ticker, insights_data.data)
                ELSE {[files |-> files, exc |-> insights_data.error, sets |-> job[ticker].sets]} :
         /\ files' = o.files
         /\ job' = [job EXCEPT ![ticker] =
                      [@ EXCEPT !.insights_data = insights_data, !.sets = o.sets,
                                !.caught = o.exc, !.pc = "done",
                                !.inputs = <<job[ticker].stock_data.data,
                                             job[ticker].news_data.data>>]]
    /\ UNCHANGED now
    /\ Still

NextRefresh ==
    \/ Tick
    \/ \E path \in Paths : \E rec \in Damaged(now) : Corrupt(path, rec)
    \/ StartJob
    \/ \E ticker \in TICKERS : GatherDone(ticker)
    \/ \E ticker \in TICKERS : InsightsDone(ticker)

\* the job reads neither BACKGROUND_REFRESH nor CACHE_TTL_MINUTES: it runs
\* under the settings of the deployment it is meant for
InitRefresh == Init /\ BACKGROUND_REFRESH /\ CACHE_TTL_MINUTES = 10

SpecRefresh == InitRefresh /\ [][NextRefresh]_vars

(***************************************************************************)
(* Writers of the cache directory that run at the same time.               *)
(***************************************************************************)
Apart == UNCHANGED <<last, inflight, job, shaping>> /\ Config

\* a caller is about to obtain a payload for the key: the one process of the
\* refresh job, which asks nothing, or _fetch_with_cache and its like in a
\* session, after get_fresh gave nothing
Issue(w, caller, cache_type, key) ==
    /\ writers[w].pc = "idle"
    /\ caller = "refresh" => \A v \in Writers \ {w} : writers[v].caller # "refresh"
    /\ caller = "fetch"
         => /\ ~BACKGROUND_REFRESH
            /\ get_fresh(files, now, CACHE_TTL_MINUTES, cache_type, key) = RetNone
    /\ writers' = [writers EXCEPT ![w] = [NoWrite EXCEPT !.pc = "fetching", !.caller = caller,
                                                         !.cache_type = cache_type,
                                                         !.key = key]]
    /\ UNCHANGED <<files, now>>
    /\ Apart

\* the adapter answered: cache_service.set builds cached and opens the file
Open(w, data) ==
    /\ writers[w].pc = "fetching"
    /\ files' = set_open(files, writers[w].cache_type, writers[w].key)
    /\ writers' = [writers EXCEPT ![w] = [@ EXCEPT !.pc = "open", !.data = data,
                                                   !.timestamp = now, !.linked = TRUE]]
    /\ UNCHANGED now
    /\ Apart

\* the with block of set ends
Dump(w) ==
    /\ writers[w].pc = "open"
    /\ files' \in set_dump(files, writers[w])
    /\ writers' = [writers EXCEPT ![w].pc = "sweep"]
    /\ UNCHANGED now
    /\ Apart

\* self._cleanup() of set; a file it unlinks is lost to who has it open
Sweep(w) ==
    /\ writers[w].pc = "sweep"
    /\ \E s \in _cleanup(files, now, CACHE_MAX_AGE_HOURS) :
         /\ files' = s.files
         /\ writers' = [v \in Writers |->
                          IF v = w THEN [writers[v] EXCEPT !.pc = "done"]
                          ELSE LET cache_path == _get_cache_path(writers[v].cache_type,
                                                                 writers[v].key)
                               IN IF /\ writers[v].pc = "open"
                                     /\ exists(files, cache_path)
                                     /\ ~exists(s.files, cache_path)
                                  THEN [writers[v] EXCEPT !.linked = FALSE]
                                  ELSE writers[v]]
    /\ UNCHANGED now
    /\ Apart

\* every writer is back from set
Leave ==
    /\ \A w \in Writers : writers[w].pc = "done"
    /\ writers' = [w \in Writers |-> NoWrite]
    /\ UNCHANGED <<files, now>>
    /\ Apart

NextWriters ==
    \/ Tick
    \/ \E w \in Writers : \E caller \in {"fetch", "refresh"} : \E k \in CacheKeys :
         Issue(w, caller, k[1], k[2])
    \/ \E w \in Writers :
         \E data \in RefreshPayloads(<<writers[w].cache_type, writers[w].key>>, now) :
           Open(w, data)
    \/ \E w \in Writers : Dump(w)
    \/ \E w \in Writers : Sweep(w)
    \/ Leave

SpecWriters == Init /\ [][NextWriters]_vars

(***************************************************************************)
(* Readers and sweeps that run at the same time: the sweep of a set file   *)
(* by file, and a read in its two steps.                                   *)
(***************************************************************************)
\* a file was unlinked: who has it open for writing has lost it
unlink_seen(w, before, after) ==
    [v \in Writers |->
       IF /\ v # w
          /\ writers[v].pc = "open"
          /\ exists(before, _get_cache_path(writers[v].cache_type, writers[v].key))
          /\ ~exists(after, _get_cache_path(writers[v].cache_type, writers[v].key))
       THEN [writers[v] EXCEPT !.linked = FALSE]
       ELSE writers[v]]

\* self.cache_dir.glob("*.json") of _cleanup
Glob(w) ==
    /\ writers[w].pc = "sweep"
    /\ LET listing == {p \in Paths : exists(files, p)} IN
       writers' = [writers EXCEPT ![w] = [@ EXCEPT !.pc = "sweeping", !.op = "set",
                                                  !.listing = listing]]
    /\ UNCHANGED <<files, now>>
    /\ Apart

\* the loop of _cleanup visits a file of its listing; the set is over when
\* an exception leaves the loop or no file is left
SweepFile(w, cache_file) ==
    /\ writers[w].pc = "sweeping"
    /\ cache_file \in writers[w].listing
    /\ LET s == sweep_file(files, now, CACHE_MAX_AGE_HOURS, cache_file)
           left == writers[w].listing \ {cache_file}
       IN /\ files' = s.files
          /\ writers' = [unlink_seen(w, files, s.files) EXCEPT ![w] =
                           IF s.exc # ""
                           THEN [@ EXCEPT !.pc = "done", !.ret = RetRaise(s.exc)]
                           ELSE IF left = {} THEN [@ EXCEPT !.pc = "done", !.listing = left]
                           ELSE [@ EXCEPT !.listing = left]]
    /\ UNCHANGED now
    /\ Apart

\* a read operation up to its cache_path.exists()
Check(w, op, cache_type, key) ==
    /\ writers[w].pc = "idle"
    /\ writers' = [writers EXCEPT ![w] =
                     [NoWrite EXCEPT !.op = op, !.cache_type = cache_type, !.key = key,
                                     !.pc = IF exists(files, _get_cache_path(cache_type, key))
                                            THEN "checked" ELSE "done"]]
    /\ UNCHANGED <<files, now>>
    /\ Apart

\* the rest of the read operation
Read(w) ==
    /\ writers[w].pc = "checked"
    /\ writers' = [writers EXCEPT ![w] =
                     [@ EXCEPT !.pc = "done",
                               !.ret = read_after_exists(files, now, CACHE_TTL_MINUTES,
                                                         writers[w].op, writers[w].cache_type,
                                                         writers[w].key)]]
    /\ UNCHANGED <<files, now>>
    /\ Apart

\* the clock advances between operations: none lasts the minutes of a Tick
Elapse ==
    /\ \A w \in Writers : writers[w].pc \in {"idle", "done"}
    /\ Tick

NextReaders ==
    \/ Elapse
    \/ \E w \in Writers : \E k \in CacheKeys : Issue(w, "refresh", k[1], k[2])
    \/ \E w \in Writers :
         \E data \in RefreshPayloads(<<writers[w].cache_type, writers[w].key>>, now) :
           Open(w, data)
    \/ \E w \in Writers : Dump(w)
    \/ \E w \in Writers : Glob(w)
    \/ \E w \in Writers : \E cache_file \in Paths : SweepFile(w, cache_file)
    \/ \E w \in Writers : \E op \in ReadOps : \E k \in CacheKeys : Check(w, op, k[1], k[2])
    \/ \E w \in Writers : Read(w)
    \/ Leave

SpecReaders == Init /\ [][NextReaders]_vars

(***************************************************************************)
(* Data shaping alone: the function applied to the body of one response.   *)
(***************************************************************************)
Unshaped == UNCHANGED <<files, now, last, inflight, job, writers>> /\ Config

\* the adapters read none of the cache's settings: one configuration
InitNews ==
    /\ Constructed /\ BACKGROUND_REFRESH /\ CACHE_TTL_MINUTES = 10
    /\ \E articles \in ListsUpTo(NewsArticles, MaxArticles) : \E search_term \in SearchTerms :
         shaping = Shaping("_deduplicate_articles", <<articles, search_term>>)

Deduplicate ==
    /\ shaping.pc = "called"
    /\ shaping.fn = "_deduplicate_articles"
    /\ shaping' = [shaping EXCEPT !.pc = "done",
                                  !.ret = _deduplicate_articles(shaping.args[1],
                                                                shaping.args[2])]
    /\ Unshaped

NextNews == Deduplicate

SpecNews == InitNews /\ [][NextNews]_vars

InitPrices ==
    /\ Constructed /\ BACKGROUND_REFRESH /\ CACHE_TTL_MINUTES = 10
    /\ \E data \in PolygonData : \E ticker \in TICKERS :
         shaping = Shaping("_transform_response", <<data, ticker>>)

Transform ==
    /\ shaping.pc = "called"
    /\ shaping.fn = "_transform_response"
    /\ shaping' = [shaping EXCEPT !.pc = "done",
                                  !.ret = _transform_response(shaping.args[1],
                                                              shaping.args[2])]
    /\ Unshaped

NextPrices == Transform

SpecPrices == InitPrices /\ [][NextPrices]_vars

(***************************************************************************)
(* Properties                                                              *)
(***************************************************************************)
\* the operations that are _fetch_with_cache under a cache type
FetchOps == {"get_stock_data", "get_news"}

DataOps == FetchOps \cup {"get_insights", "get_related_stocks"}

CallPath(c) == _get_cache_path(c.cache_type, c.key)

MaxAgeMinutes == CACHE_MAX_AGE_HOURS * MinutesPerHour

Age(rec) == now - rec.timestamp

\* the call made exactly one adapter call, and it failed
SourceFailed(c) == Len(c.called) = 1 /\ ~c.called[1].ok

\* the call made exactly one adapter call, and it returned a payload
SourceSucceeded(c) == Len(c.called) = 1 /\ c.called[1].ok

\* the payload part of a returned dict
PayloadOf(ret, data) == [x \in DOMAIN data |-> ret.value[x]]

\* payload tagged with is_fallback and data_age
Tagged(data, is_fallback, data_age) ==
    RetValue(("data_age" :> data_age) @@ ("is_fallback" :> is_fallback) @@ data)

\* C1: in background-refresh-only mode no DataService operation
\* (get_stock_data, get_news, get_insights with or without force_refresh,
\* get_related_stocks) makes an adapter call, whatever the cache holds.
C1_NoAdapterInBackground ==
    (BACKGROUND_REFRESH /\ last.op \in DataOps) => last.called = <<>>

\* a forced get_insights in background mode that found no cached insight
\* although price and news entries were there to generate one from
C1_Witness ==
    /\ BACKGROUND_REFRESH
    /\ last.op = "get_insights"
    /\ last.force_refresh
    /\ last.ret = RetNone
    /\ \A ticker \in TICKERS :
         /\ WellFormed(files[_get_cache_path(<<"polygon">>, ticker)])
         /\ WellFormed(files[_get_cache_path(<<"news">>, ticker)])

\* C2: in interactive mode, when the fresh check misses and the source call
\* fails, the fetch returns the cached payload of the key tagged
\* is_fallback = TRUE with data_age = get_age(key) if an entry exists for the
\* key, whatever its age, and None if the key has no file.
C2_FallbackOnSourceFailure ==
    [][(~BACKGROUND_REFRESH /\ last'.op \in FetchOps /\ SourceFailed(last'))
       => LET rec == files[CallPath(last')] IN
          /\ WellFormed(rec)
               => last'.ret = Tagged(rec.data, TRUE,
                                     get_age(files, now, last'.cache_type, last'.key).value)
          /\ rec.shape = "absent" => last'.ret = RetNone]_vars

\* a failed fetch answered from an entry that is older than MAX_AGE
C2_Witness ==
    /\ ~BACKGROUND_REFRESH
    /\ last.op \in FetchOps
    /\ SourceFailed(last)
    /\ last.ret.tag = "value"
    /\ last.ret.value["is_fallback"]
    /\ Age(files[CallPath(last)]) > MaxAgeMinutes

\* C3 (as claimed): an operation during which an adapter call failed returns
\* a value (a payload, None or an empty mapping) and does not raise.
C3_UpstreamFailureNeverRaises ==
    (last.op \in DataOps /\ \E i \in 1..Len(last.called) : ~last.called[i].ok)
        => last.ret.tag # "raise"

\* C4: in interactive mode with an empty cache directory, a fetch whose
\* source call succeeds with payload P stores P under the key and returns P
\* with is_fallback = FALSE and data_age None; a fetch of a key whose entry
\* is within TTL returns the entry's payload without an adapter call and
\* leaves the entry in place.
C4_StoreThenServeFresh ==
    [][(~BACKGROUND_REFRESH /\ last'.op \in FetchOps)
       => LET rec == files[CallPath(last')] IN
          /\ ((\A p \in Paths : files[p] = NoFile) /\ SourceSucceeded(last'))
               => /\ files'[CallPath(last')] = Entry(last'.called[1].data, now, "api")
                  /\ last'.ret = Tagged(last'.called[1].data, FALSE, None)
          /\ (WellFormed(rec) /\ Age(rec) <= CACHE_TTL_MINUTES)
               => /\ last'.called = <<>>
                  /\ last'.ret.tag = "value"
                  /\ PayloadOf(last'.ret, rec.data) = rec.data
                  /\ files'[CallPath(last')] = rec]_vars

\* a second fetch, later than the write and within TTL, answered from the
\* entry; nothing else is in the directory
C4_Witness ==
    /\ ~BACKGROUND_REFRESH
    /\ last.op \in FetchOps
    /\ last.called = <<>>
    /\ last.ret.tag = "value"
    /\ WellFormed(files[CallPath(last)])
    /\ Age(files[CallPath(last)]) > 0
    /\ PayloadOf(last.ret, files[CallPath(last)].data) = files[CallPath(last)].data
    /\ \A p \in Paths \ {CallPath(last)} : files[p] = NoFile

\* C5 (as claimed): when the fresh check hits, the fetch returns the entry's
\* payload with is_fallback = FALSE and data_age None, in both modes.
C5_FreshHitWithoutAge ==
    [][(last'.op \in FetchOps
        /\ WellFormed(files[CallPath(last')])
        /\ Age(files[CallPath(last')]) <= CACHE_TTL_MINUTES)
       => last'.ret = Tagged(files[CallPath(last')].data, FALSE, None)]_vars

\* C5 (amended): when the fresh check hits, the fetch returns the entry's
\* payload with is_fallback = FALSE and data_age = get_age(key), in both
\* modes.
C5_FreshHitWithAge ==
    [][(last'.op \in FetchOps
        /\ WellFormed(files[CallPath(last')])
        /\ Age(files[CallPath(last')]) <= CACHE_TTL_MINUTES)
       => last'.ret = Tagged(files[CallPath(last')].data, FALSE,
                             get_age(files, now, last'.cache_type, last'.key).value)]_vars

\* a fresh hit in background mode on an entry written earlier
C5_Witness ==
    /\ BACKGROUND_REFRESH
    /\ last.op \in FetchOps
    /\ last.ret.tag = "value"
    /\ ~last.ret.value["is_fallback"]
    /\ last.ret.value["data_age"] # None
    /\ Age(files[CallPath(last)]) > 0

\* C6: in background-refresh-only mode, when the fresh check misses, the
\* fetch returns the entry's payload with is_fallback = TRUE and
\* data_age = get_age(key) if an entry exists for the key, None if the key
\* has no file, and leaves the cache directory as it was.
C6_BackgroundStaleOrNone ==
    [][(BACKGROUND_REFRESH /\ last'.op \in FetchOps
        /\ get_fresh(files, now, CACHE_TTL_MINUTES, last'.cache_type, last'.key) = RetNone)
       => LET rec == files[CallPath(last')] IN
          /\ files' = files
          /\ WellFormed(rec)
               => last'.ret = Tagged(rec.data, TRUE,
                                     get_age(files, now, last'.cache_type, last'.key).value)
          /\ rec.shape = "absent" => last'.ret = RetNone]_vars

\* a background fetch answered from an entry older than TTL
C6_Witness ==
    /\ BACKGROUND_REFRESH
    /\ last.op \in FetchOps
    /\ last.ret.tag = "value"
    /\ last.ret.value["is_fallback"]
    /\ Age(files[CallPath(last)]) > CACHE_TTL_MINUTES

\* C7: get_fresh called right after set(key, payload) returns an entry whose
\* data is the payload just written, that carries a timestamp, and whose
\* source is "api".
C7_FreshAfterSet ==
    last.op = "set"
        => LET r == get_fresh(files, now, CACHE_TTL_MINUTES, last.cache_type, last.key) IN
           /\ r.tag = "value"
           /\ r.value.has_data /\ r.value.data = last.data
           /\ r.value.ts_kind = "iso"
           /\ r.value.source = "api"

\* a set that replaced an older entry of its key
C7_Witness ==
    /\ last.op = "set"
    /\ last.ret = RetNone
    /\ now > 0
    /\ \E p \in Paths \ {CallPath(last)} :
         WellFormed(files[p]) /\ files[p].timestamp < now

\* C8: while an entry's age is above TTL and not above MAX_AGE, get_fresh
\* returns None and get_stale returns the entry tagged source = "fallback";
\* no cache operation other than a set on the entry's own key (a read, a set
\* on another key and its sweep) ends this.
C8_StaleServedUntilMaxAge ==
    [][\A k \in CacheKeys :
         LET rec == files[_get_cache_path(k[1], k[2])] IN
         (/\ WellFormed(rec)
          /\ Age(rec) > CACHE_TTL_MINUTES
          /\ Age(rec) <= MaxAgeMinutes
          /\ last'.op \in {"set", "get_fresh", "get_stale", "get_age"}
          /\ ~(last'.op = "set" /\ CallPath(last') = _get_cache_path(k[1], k[2])))
         => /\ get_fresh(files, now, CACHE_TTL_MINUTES, k[1], k[2]) = RetNone
            /\ get_fresh(files', now', CACHE_TTL_MINUTES, k[1], k[2]) = RetNone
            /\ get_stale(files', now', k[1], k[2])
                 = RetValue([rec EXCEPT !.source = "fallback"])]_vars

\* a set on one key has swept the directory and another key's entry, older
\* than TTL, is still there
C8_Witness ==
    /\ last.op = "set"
    /\ \E k \in CacheKeys :
         LET rec == files[_get_cache_path(k[1], k[2])] IN
         /\ _get_cache_path(k[1], k[2]) # CallPath(last)
         /\ WellFormed(rec)
         /\ Age(rec) > CACHE_TTL_MINUTES
         /\ Age(rec) <= MaxAgeMinutes

\* C9 (as claimed): whatever the directory holds, after the next set on any
\* key neither get_fresh nor get_stale returns an entry that was older than
\* MAX_AGE when the set was called.
C9_ExpiredGoneAfterSet ==
    [][last'.op = "set"
       => \A k \in CacheKeys :
            LET rec == files[_get_cache_path(k[1], k[2])] IN
            (WellFormed(rec) /\ Age(rec) > MaxAgeMinutes)
            => /\ get_fresh(files', now', CACHE_TTL_MINUTES, k[1], k[2]) # RetValue(rec)
               /\ get_stale(files', now', k[1], k[2])
                    # RetValue([rec EXCEPT !.source = "fallback"])]_vars

C11_SweepRobustPerFile ==
    [][last'.op = "set"
       => /\ last'.ret.tag # "raise"
          /\ \A p \in Paths \ {CallPath(last')} :
               (/\ exists(files, p)
                /\ \/ load_timestamp(files[p]) # "ok"
                   \/ files[p].timestamp < cutoff(now, CACHE_MAX_AGE_HOURS))
               => files'[p] = NoFile]_vars

\* the runs of wrapper() in progress or over
Runs == DOMAIN inflight.runs

\* what the i-th invocation of the run's function did
Invocation(r, i) == invoke(r.func, r.arg, r.requests[i], now)

\* the invocation raised an error the wrapper retries
Retryable(r, i) ==
    /\ Invocation(r, i).tag = "raise"
    /\ Invocation(r, i).error.cls \in retry_on(r.func)
    /\ _should_retry(Invocation(r, i).error)

\* C12: a run of wrapper() invokes the function at most max_retries + 1
\* times and is over after that many; it returns what the first invocation
\* that succeeds returns and invokes no more; when every invocation raises a
\* retryable error it ends after max_retries + 1 invocations by raising the
\* last of them.
C12_BoundedAttempts ==
    \A run \in Runs :
      LET r == inflight.runs[run] IN
      LET n == Len(r.requests) IN
      /\ n <= inflight.max_retries + 1
      /\ r.pc # "done" => n <= inflight.max_retries
      /\ (r.pc = "done" /\ r.ret.tag = "return")
           => /\ r.ret = Invocation(r, n)
              /\ \A i \in 1..(n - 1) : Invocation(r, i).tag = "raise"
      /\ (\A i \in 1..n : Retryable(r, i))
           => /\ r.pc # "done" \/ n = inflight.max_retries + 1
              /\ n = inflight.max_retries + 1
                   => r.pc = "done" /\ r.ret = Raised(r.requests[n].error)

\* a call that succeeded at its last permitted invocation, after retries
C12_Witness ==
    /\ inflight.op = "call"
    /\ inflight.max_retries >= 2
    /\ \E run \in Runs :
         LET r == inflight.runs[run] IN
         /\ r.pc = "done"
         /\ r.ret.tag = "return"
         /\ Len(r.requests) = inflight.max_retries + 1

\* a status error with a 4xx status other than 429
ClientError(e) ==
    /\ e.cls \in {"HTTPStatusError", "APIStatusError"}
    /\ e.status \in 400..499
    /\ e.status # TooManyRequests

\* C13 (as claimed): when the first invocation of polygon.get_stock_data,
\* news.get_news or openai.generate_insights raises a client error, the run
\* is over after that one invocation, has not slept, and raises that error.
C13_ClientErrorOneAttempt ==
    \A run \in Runs :
      LET r == inflight.runs[run] IN
      (/\ r.func # "polygon.fetch_ticker"
       /\ Len(r.requests) >= 1
       /\ Invocation(r, 1).tag = "raise"
       /\ ClientError(Invocation(r, 1).error))
      => /\ r.pc = "done"
         /\ Len(r.requests) = 1
         /\ r.sleeps = <<>>
         /\ r.ret = Invocation(r, 1)

\* the invocation raised the status error of an HTTP 429
RateLimited(r, i) ==
    Invocation(r, i) = Raised(Error("HTTPStatusError", TooManyRequests))

Unclassified(e) ==
    e.cls \notin {"", "TimeoutException", "ConnectError", "HTTPStatusError",
                  "APIConnectionError", "APIStatusError"}

\* C15 (as claimed): a run of polygon.get_stock_data, news.get_news or
\* openai.generate_insights does not end by raising an unclassified error
\* before it has made max_retries + 1 invocations.
C15_UnclassifiedIsRetried ==
    \A run \in Runs :
      LET r == inflight.runs[run] IN
      (/\ r.func # "polygon.fetch_ticker"
       /\ r.pc = "done"
       /\ r.ret.tag = "raise"
       /\ Unclassified(r.ret.error))
      => Len(r.requests) = inflight.max_retries + 1

\* C16: in polygon.get_related_stocks each task ends with its own ticker and
\* the quote of its own request, or None when that request failed or was
\* short, whatever the other tasks do; the call returns, and never raises,
\* the mapping of exactly the tickers whose request gave a quote, which is
\* empty when none did.
C16_FanOutIsolatesFailures ==
    inflight.op = "gather"
    => LET runs == inflight.runs
           quoted == {ticker \in DOMAIN runs :
                        runs[ticker].requests # <<>> /\ runs[ticker].requests[1].kind = "ok"}
       IN /\ \A ticker \in DOMAIN runs :
               runs[ticker].pc = "done"
               => runs[ticker].ret = Returned(<<ticker, IF ticker \in quoted
                                                       THEN Some(100 + now) ELSE <<>>>>)
          /\ inflight.ret # Pending
               => /\ inflight.ret.tag = "return"
                  /\ DOMAIN inflight.ret.value = quoted
                  /\ \A ticker \in quoted : inflight.ret.value[ticker] = 100 + now

\* three tickers were fetched, the request of exactly one raised, and the
\* call returned the two others
C16_Witness ==
    /\ inflight.op = "gather"
    /\ inflight.ret.tag = "return"
    /\ DOMAIN inflight.runs = BasketTickers
    /\ Cardinality({ticker \in BasketTickers :
                      inflight.runs[ticker].requests[1].kind = "error"}) = 1
    /\ Cardinality(DOMAIN inflight.ret.value) = 2

\* C17 (as claimed): a fetch_ticker task whose request raised a timeout, a
\* connect failure, a 429 or a 5xx makes its request again, and returns
\* (ticker, None) only after max_retries + 1 requests.
C17_RelatedFetchIsRetried ==
    inflight.op = "gather"
    => \A run \in Runs :
         LET r == inflight.runs[run] IN
         (/\ r.pc = "done"
          /\ r.requests[1].kind = "error"
          /\ r.requests[1].error.cls \in HTTPError
          /\ _should_retry(r.requests[1].error))
         => Len(r.requests) > 1 \/ inflight.max_retries = 0

\* an adapter call of the operation failed
SomeSourceFailed(c) == \E i \in 1..Len(c.called) : ~c.called[i].ok

\* C18 (as claimed): get_insights without force_refresh makes no call of
\* openai.generate_insights and does not write the insight entry, whatever
\* the cache holds.
C18_NoGenerationWithoutForce ==
    [][(last'.op = "get_insights" /\ ~last'.force_refresh)
       => /\ \A i \in 1..Len(last'.called) :
               last'.called[i].adapter # "openai.generate_insights"
          /\ files'[CallPath(last')] \in {files[CallPath(last')], NoFile}]_vars

\* C19: in background-refresh-only mode get_insights with force_refresh
\* returns what get_insights without force_refresh returns in the same
\* state: the cached insight, of any age, tagged is_cached = TRUE with
\* data_age = get_age(key), or None when the key has no file; it makes no
\* adapter call and leaves the directory as it was.
C19_ForceDowngradedInBackground ==
    [][(BACKGROUND_REFRESH /\ last'.op = "get_insights" /\ last'.force_refresh)
       => LET rec == files[CallPath(last')] IN
          /\ files' = files
          /\ last'.called = <<>>
          /\ {o.ret : o \in get_insights(files, now, last'.key, FALSE)} = {last'.ret}
          /\ WellFormed(rec)
               => last'.ret
                    = RetValue(("data_age"
                                  :> get_age(files, now, last'.cache_type, last'.key).value)
                               @@ ("is_cached" :> TRUE) @@ rec.data)
          /\ rec.shape = "absent" => last'.ret = RetNone]_vars

\* a forced get_insights in background mode answered with a cached insight
\* that is older than MAX_AGE
C19_Witness ==
    /\ BACKGROUND_REFRESH
    /\ last.op = "get_insights"
    /\ last.force_refresh
    /\ last.ret.tag = "value"
    /\ last.ret.value["is_cached"]
    /\ Age(files[CallPath(last)]) > MaxAgeMinutes

\* C20 (as claimed): in interactive mode a forced get_insights whose
\* generation failed (an adapter call failed) returns the cached insight when
\* the key has one.
C20_InsightFallbackOnFailure ==
    [][(/\ ~BACKGROUND_REFRESH
        /\ last'.op = "get_insights"
        /\ last'.force_refresh
        /\ SomeSourceFailed(last')
        /\ WellFormed(files[CallPath(last')])
        /\ files'[CallPath(last')] = files[CallPath(last')])
       => /\ last'.ret.tag = "value"
          /\ PayloadOf(last'.ret, files[CallPath(last')].data)
               = files[CallPath(last')].data]_vars

\* the value the call returned was read with get_stale: the entry of the key
\* is well-formed and was not rewritten, and the call went past its fresh
\* check (for get_insights: it made its cache check)
ServedFromStale(c) ==
    /\ WellFormed(files[CallPath(c)])
    /\ files'[CallPath(c)] = files[CallPath(c)]
    /\ c.ret.tag = "value"
    /\ IF c.op = "get_insights" THEN ~c.force_refresh \/ BACKGROUND_REFRESH
       ELSE get_fresh(files, now, CACHE_TTL_MINUTES, c.cache_type, c.key) = RetNone

\* C21 (as claimed): a value that get_stock_data, get_news, get_insights or
\* get_related_stocks read with get_stale carries a fallback indicator
\* (is_fallback or is_cached, TRUE) and a data_age that is not None.
C21_StaleResultCarriesAge ==
    [][(last'.op \in DataOps /\ ServedFromStale(last'))
       => /\ "data_age" \in DOMAIN last'.ret.value
          /\ last'.ret.value["data_age"] # None
          /\ \E flag \in {"is_fallback", "is_cached"} :
               flag \in DOMAIN last'.ret.value /\ last'.ret.value[flag]]_vars

\* the call made the adapter call, and it failed
CalledAndFailed(c, adapter) ==
    \E i \in 1..Len(c.called) : c.called[i].adapter = adapter /\ ~c.called[i].ok

CalledInsightAdapter(c) ==
    \E i \in 1..Len(c.called) : c.called[i].adapter = "openai.generate_insights"

\* C30: in interactive mode get_insights calls openai.generate_insights
\* once and last, and only when the price and the news each came from a
\* successful adapter call or from a well-formed entry of the cache; when
\* the price call or the news call fails and the key of that kind has no
\* file, it returns None, does not call openai.generate_insights
\* and does not write the insight entry (the sweep of the other kind's set
\* may delete it).
C30_InsightNeedsPriceAndNews ==
    [][(~BACKGROUND_REFRESH /\ last'.op = "get_insights")
       => LET ticker == last'.key
              absent(cache_type, adapter) ==
                  /\ CalledAndFailed(last', adapter)
                  /\ files[_get_cache_path(cache_type, ticker)] = NoFile
              obtained(cache_type, adapter) ==
                  \/ \E i \in 1..Len(last'.called) :
                       last'.called[i].adapter = adapter /\ last'.called[i].ok
                  \/ WellFormed(files[_get_cache_path(cache_type, ticker)])
          IN /\ CalledInsightAdapter(last')
                  => /\ obtained(<<"polygon">>, "polygon.get_stock_data")
                     /\ obtained(<<"news">>, "news.get_news")
                     /\ \A i \in 1..Len(last'.called) :
                          last'.called[i].adapter = "openai.generate_insights"
                          <=> i = Len(last'.called)
             /\ (absent(<<"polygon">>, "polygon.get_stock_data")
                 \/ absent(<<"news">>, "news.get_news"))
                  => /\ last'.ret = RetNone
                     /\ ~CalledInsightAdapter(last')
                     /\ files'[CallPath(last')] \in {files[CallPath(last')], NoFile}]_vars

\* a forced get_insights that found a price, found no news, and gave up
\* with the cached insight still in place
C30_Witness ==
    /\ ~BACKGROUND_REFRESH
    /\ last.op = "get_insights"
    /\ last.force_refresh
    /\ last.ret = RetNone
    /\ Len(last.called) = 2
    /\ last.called[1].ok
    /\ ~last.called[2].ok
    /\ WellFormed(files[CallPath(last)])

\* C27: a set on a key leaves under that key the payload it was given, read
\* back by get_stale, and every set on the key replaces what was there: a
\* key has one entry, the last one written.  A set on another key leaves a
\* well-formed entry as it was, or deletes it in its sweep when the entry is
\* older than MAX_AGE; it never puts another payload under the key.
C27_LastWriteWins ==
    [][last'.op = "set"
       => \A k \in CacheKeys :
            LET path == _get_cache_path(k[1], k[2])
                rec == files[path]
                stale == get_stale(files', now', k[1], k[2])
            IN IF <<last'.cache_type, last'.key>> = k
               THEN /\ stale.tag = "value"
                    /\ stale.value.data = last'.data
                    /\ stale.value.timestamp = now
               ELSE /\ path # CallPath(last')
                    /\ WellFormed(rec)
                         => \/ files'[path] = rec
                            \/ files'[path] = NoFile /\ Age(rec) > MaxAgeMinutes]_vars

\* a set replaced an older entry of its own key with another payload while
\* an entry of another key stayed in place
C27_Witness ==
    /\ last.op = "set"
    /\ now > 0
    /\ files[CallPath(last)] = Entry(last.data, now, "api")
    /\ \E p \in Paths \ {CallPath(last)} :
         WellFormed(files[p]) /\ files[p].timestamp < now
    /\ \E k \in CacheKeys :
         /\ <<last.cache_type, last.key>> = k
         /\ last.data \in RefreshPayloads(k, now)
         /\ last.data \notin RefreshPayloads(k, 0)

\* C28: the sleep that follows a failed invocation whose error is not a 429
\* lasts RETRY_BACKOFF_BASE * 2^attempt, attempt counted from 0, so that two
\* such sleeps in a row of one run double: 500, 1000, 2000 ms.
C28_ExponentialDelays ==
    \A run \in Runs :
      LET r == inflight.runs[run] IN
      \A i \in 1..Len(r.sleeps) :
        LET other(j) == Invocation(r, j).error.status # TooManyRequests IN
        other(i)
        => /\ Retryable(r, i)
           /\ r.sleeps[i] = RETRY_BACKOFF_BASE * (2 ^ (i - 1))
           /\ (i > 1 /\ other(i - 1)) => r.sleeps[i] = 2 * r.sleeps[i - 1]

\* a run that slept three times after failures that were no 429
C28_Witness ==
    \E run \in Runs :
      LET r == inflight.runs[run] IN
      /\ r.sleeps = <<RETRY_BACKOFF_BASE, 2 * RETRY_BACKOFF_BASE, 4 * RETRY_BACKOFF_BASE>>
      /\ \A i \in 1..3 : Invocation(r, i).error.status # TooManyRequests

\* C29: while a task of the gather of refresh_ticker is in its backoff sleep,
\* every other task of the gather that is not over can take its next step:
\* make its request, end or go to sleep on the answer, or wake up from a
\* sleep of its own.
C29_SleepDoesNotBlock ==
    inflight.op = "refresh"
    => \A id \in RefreshTasks :
         inflight.runs[id].pc = "sleep"
         => \A other \in RefreshTasks \ {id} :
              inflight.runs[other].pc # "done" => ENABLED Step(other)

\* stock_data is in its first sleep and has not been tried again, while
\* news_data started, failed, slept, tried again and is over, and
\* related_data started and is over
C29_Witness ==
    /\ inflight.op = "refresh"
    /\ inflight.runs["stock_data"].pc = "sleep"
    /\ Len(inflight.runs["stock_data"].requests) = 1
    /\ inflight.runs["news_data"].pc = "done"
    /\ Len(inflight.runs["news_data"].requests) = 2
    /\ inflight.runs["related_data"].pc = "done"

\* the cache path a refresh_ticker task writes a result to
JobPath(ticker, result) ==
    CASE result = "stock_data" -> _get_cache_path(<<"polygon">>, ticker)
      [] result = "news_data" -> _get_cache_path(<<"news">>, ticker)
      [] result = "insights_data" -> _get_cache_path(<<"insights">>, ticker)
      [] OTHER -> _get_cache_path(<<"related">>, related_key(ticker))

\* the awaitable of the task returned a result that the job writes
JobFetched(task, result) ==
    task[result].ok /\ task[result].data # EmptyDict

\* the step in which the gather of the ticker's task returns
GatherReturns(ticker) == job[ticker].pc = "gather" /\ job'[ticker].pc # "gather"

\* C22 (as claimed): when the gather of a ticker returns, the key of every
\* result that was fetched holds the payload fetched, written at that time.
C22_EverySuccessWritten ==
    [][\A ticker \in TICKERS :
         GatherReturns(ticker)
         => \A result \in RefreshTasks :
              JobFetched(job'[ticker], result)
              => files'[JobPath(ticker, result)]
                   = Entry(job'[ticker][result].data, now, "api")]_vars

\* C23 (as claimed): when the gather of a ticker returns,
\* openai.generate_insights is called if and only if the price and the news
\* were both fetched; when either was not, the file of the ticker's insight
\* is left as it was.
C23_InsightIffBothFetched ==
    [][\A ticker \in TICKERS :
         GatherReturns(ticker)
         => LET both == job'[ticker].stock_data.ok /\ job'[ticker].news_data.ok IN
            /\ job'[ticker].pc = "generate" <=> both
            /\ ~both => /\ job'[ticker].insights_data = NotFetched
                        /\ files'[JobPath(ticker, "insights_data")]
                             = files[JobPath(ticker, "insights_data")]]_vars

\* C24 (as claimed): a task that is over has called cache_service.set for
\* every result that was fetched, has called openai.generate_insights when
\* the price and the news were both fetched, and has called
\* cache_service.set for the insight when there is one, whatever failed.
C24_FailuresIsolated ==
    \A ticker \in TICKERS :
      LET task == job[ticker]
          written(cache_type) == \E i \in 1..Len(task.sets) : task.sets[i] = cache_type
      IN task.pc = "done"
         => /\ JobFetched(task, "stock_data") => written(<<"polygon">>)
            /\ JobFetched(task, "news_data") => written(<<"news">>)
            /\ JobFetched(task, "related_data") => written(<<"related">>)
            /\ (task.stock_data.ok /\ task.news_data.ok) => task.insights_data # NotFetched
            /\ task.insights_data.ok => written(<<"insights">>)

\* a writer is inside cache_service.set
InSet(w) == writers[w].pc \in {"open", "sweep"}

\* C25 (as claimed): when two writers have completed a set each, on
\* different keys, get_stale gives for the key of each the payload it wrote,
\* as long as that entry is no older than CACHE_MAX_AGE_HOURS.
C25_DistinctKeysIndependent ==
    \A a, b \in Writers :
      (/\ a # b
       /\ writers[a].pc = "done"
       /\ writers[b].pc = "done"
       /\ <<writers[a].cache_type, writers[a].key>> # <<writers[b].cache_type, writers[b].key>>
       /\ now - writers[b].timestamp <= MaxAgeMinutes)
      => LET stale == get_stale(files, now, writers[b].cache_type, writers[b].key) IN
         /\ stale.tag = "value"
         /\ stale.value.data = writers[b].data

\* C26 (as claimed): no two writers are inside cache_service.set for the same
\* key at the same time.
C26_OneWriterPerKey ==
    \A a, b \in Writers :
      (a # b /\ InSet(a) /\ InSet(b))
      => <<writers[a].cache_type, writers[a].key>> # <<writers[b].cache_type, writers[b].key>>

\* C31 (as claimed): in interactive mode a fetch returns a value tagged
\* is_fallback = TRUE only when its source call failed, and a fetch whose
\* source call returned a payload returns that payload tagged
\* is_fallback = FALSE with data_age None.
C31_FallbackOnlyOnSourceFailure ==
    [][(~BACKGROUND_REFRESH /\ last'.op \in FetchOps)
       => /\ (last'.ret.tag = "value" /\ last'.ret.value["is_fallback"])
               => SourceFailed(last')
          /\ SourceSucceeded(last')
               => last'.ret = Tagged(last'.called[1].data, FALSE, None)]_vars

\* the source call of a fetch or of get_related_stocks gave nothing to store:
\* it raised, or the basket came back empty
NothingFetched(c) ==
    /\ Len(c.called) = 1
    /\ ~c.called[1].ok \/ c.called[1].data = EmptyDict

\* C32: in interactive mode a get_stock_data, get_news or get_related_stocks
\* whose source call gave nothing leaves every file of the directory as it
\* was, and a call that changes a file made a source call that returned a
\* payload.
C32_FailedFetchLeavesCache ==
    [][(~BACKGROUND_REFRESH /\ last'.op \in FetchOps \cup {"get_related_stocks"})
       => /\ NothingFetched(last') => files' = files
          /\ files' # files
               => /\ Len(last'.called) = 1
                  /\ last'.called[1].ok
                  /\ last'.called[1].data # EmptyDict]_vars

\* a failed fetch was answered from the entry of its key while an entry
\* older than MAX_AGE, which a sweep would have deleted, is still there
C32_Witness ==
    /\ ~BACKGROUND_REFRESH
    /\ last.op \in FetchOps
    /\ SourceFailed(last)
    /\ last.ret.tag = "value"
    /\ \E p \in Paths : WellFormed(files[p]) /\ Age(files[p]) > MaxAgeMinutes

\* C33 (as claimed): whatever CACHE_TTL_MINUTES and CACHE_MAX_AGE_HOURS are,
\* an entry that get_fresh returns before a set is returned by get_fresh
\* after it: the entry itself, or for the key of the set the one just
\* written.
C33_FreshSurvivesSweep ==
    [][last'.op = "set"
       => \A k \in CacheKeys :
            LET before == get_fresh(files, now, CACHE_TTL_MINUTES, k[1], k[2])
                after == get_fresh(files', now', CACHE_TTL_MINUTES, k[1], k[2])
            IN before.tag = "value"
               => /\ after.tag = "value"
                  /\ <<last'.cache_type, last'.key>> # k => after = before]_vars

\* C34: a set on a key leaves get_stale and get_age of every other key whose
\* entry is well-formed and no older than MAX_AGE as they were, whether its
\* sweep runs to its end or not.
C34_SetLeavesOtherKeys ==
    [][last'.op = "set"
       => \A k \in CacheKeys :
            LET rec == files[_get_cache_path(k[1], k[2])] IN
            (/\ <<last'.cache_type, last'.key>> # k
             /\ WellFormed(rec)
             /\ Age(rec) <= MaxAgeMinutes)
            => /\ get_stale(files', now', k[1], k[2]) = get_stale(files, now, k[1], k[2])
               /\ get_stale(files', now', k[1], k[2]) = RetValue([rec EXCEPT !.source = "fallback"])
               /\ get_age(files', now', k[1], k[2]) = get_age(files, now, k[1], k[2])
               /\ get_age(files', now', k[1], k[2]) = RetValue(_format_age(Age(rec)))]_vars

\* a set whose sweep deleted or met other files, beside an older entry of
\* another key that is within MAX_AGE and still there
C34_Witness ==
    /\ last.op = "set"
    /\ \E p \in Paths \ {CallPath(last)} :
         /\ WellFormed(files[p])
         /\ Age(files[p]) > 0
         /\ Age(files[p]) <= MaxAgeMinutes
    /\ \E p \in Paths \ {CallPath(last)} : ~WellFormed(files[p])
    /\ now = MaxTicks * TickMinutes

\* C35 (as claimed): when the gather of a refresh_ticker task returns with an
\* empty basket, the task does not call cache_service.set for the related
\* key and the basket that was cached stays, unless it is older than MAX_AGE
\* and a sweep deletes it; when the basket is not empty, it replaces the one
\* that was cached.
C35_EmptyBasketNotWritten ==
    [][\A ticker \in TICKERS :
         GatherReturns(ticker)
         => LET task == job'[ticker]
                path == JobPath(ticker, "related_data")
            IN IF task.related_data.data = EmptyDict
               THEN /\ \A i \in 1..Len(task.sets) : task.sets[i] # <<"related">>
                    /\ WellFormed(files[path])
                         => \/ files'[path] = files[path]
                            \/ files'[path] = NoFile /\ Age(files[path]) > MaxAgeMinutes
               ELSE files'[path] = Entry(task.related_data.data, now, "api")]_vars

\* C36: a refresh_ticker task that has called openai.generate_insights
\* fetched the price and the news in its gather, has called
\* cache_service.set for the price and then for the news before, and gave
\* the function the two payloads of that gather; its set of the insight
\* comes after those of the price and the news.
C36_InsightAfterPriceAndNews ==
    \A ticker \in TICKERS :
      LET task == job[ticker] IN
      /\ task.pc = "generate" \/ task.insights_data # NotFetched
           => /\ task.stock_data.ok /\ task.news_data.ok
              /\ Len(task.sets) >= 2
              /\ task.sets[1] = <<"polygon">>
              /\ task.sets[2] = <<"news">>
      /\ task.insights_data # NotFetched
           => task.inputs = <<task.stock_data.data, task.news_data.data>>
      /\ \A i \in 1..Len(task.sets) :
           task.sets[i] = <<"insights">>
           => /\ i > 2
              /\ task.insights_data.ok
              /\ task.inputs = <<task.stock_data.data, task.news_data.data>>

\* a task that wrote the price, the news, the basket and then the insight,
\* the insight some time after the gather
C36_Witness ==
    \E ticker \in TICKERS :
      /\ job[ticker].pc = "done"
      /\ job[ticker].sets = <<(<<"polygon">>), (<<"news">>), (<<"related">>), (<<"insights">>)>>
      /\ files[JobPath(ticker, "stock_data")]
           = Entry(job[ticker].stock_data.data, now - TickMinutes, "api")
      /\ files[JobPath(ticker, "insights_data")]
           = Entry(job[ticker].insights_data.data, now, "api")

\* C37 (as claimed): a read that runs beside the set of another thread or
\* process returns None or a complete entry (for get_age, its age) and does
\* not raise, and no set raises out of its sweep.
C37_ReadsTolerateDeletion ==
    \A w \in Writers :
      writers[w].pc = "done"
      => /\ writers[w].ret.tag # "raise"
         /\ (writers[w].op \in {"get_fresh", "get_stale"} /\ writers[w].ret.tag = "value")
              => WellFormed(writers[w].ret.value)

\* a finished call of _deduplicate_articles
Deduplicated == shaping.fn = "_deduplicate_articles" /\ shaping.pc = "done"

\* the article is one of the list
Among(article, list) == \E i \in DOMAIN list : list[i] = article

\* C38: for every input list the result of _deduplicate_articles holds at most
\* one article per lower-cased, trimmed headline and at most 2 articles per
\* source, the articles kept for a source are the freshest of that source by
\* pub_date (no article of the source that was left out is newer than one that
\* was kept), and the result is ordered by pub_date, newest first.
C38_DeduplicatedFreshestPerSource ==
    Deduplicated =>
        LET articles == shaping.args[1]
            result == shaping.ret
        IN  /\ \A i, j \in DOMAIN result :
                  i # j => headline(result[i]) # headline(result[j])
            /\ \A i \in DOMAIN result :
                  Cardinality({j \in DOMAIN result :
                                  source_title(result[j]) = source_title(result[i])}) <= 2
            /\ \A i \in DOMAIN result : \A j \in DOMAIN articles :
                  (/\ source_title(articles[j]) = source_title(result[i])
                   /\ ~Among(articles[j], result))
                      => ~str_lt(pub_date(result[i]), pub_date(articles[j]))
            /\ \A i, j \in DOMAIN result :
                  i < j => ~str_lt(pub_date(result[i]), pub_date(result[j]))

\* a finished call of _transform_response
Transformed == shaping.fn = "_transform_response" /\ shaping.pc = "done"

\* the results of the response body given to the call
UpstreamResults == dict_get(shaping.args[1], "results", <<>>)

\* C39: the output of _transform_response has one price point per upstream
\* result, in the same order; current_price is the close of the last result
\* and previous_close the close of the second-to-last; with no results prices
\* is empty and both are absent, and with exactly one result previous_close
\* is absent.
C39_PriceSeriesTransformed ==
    Transformed =>
        LET results == UpstreamResults
            ret == shaping.ret
            n == Len(results)
        IN  /\ Len(ret.prices) = n
            /\ \A i \in 1..n :
                  /\ ret.prices[i].close = results[i].c
                  /\ ret.prices[i].open = results[i].o
                  /\ ret.prices[i].high = results[i].h
                  /\ ret.prices[i].low = results[i].l
                  /\ ret.prices[i].volume = results[i].v
                  /\ ret.prices[i].date = fromtimestamp(results[i].t \div 1000)
            /\ n >= 1 => ret.current_price = Some(results[n].c)
            /\ n >= 2 => ret.previous_close = Some(results[n - 1].c)
            /\ n = 0 => ret.prices = <<>> /\ ret.current_price = <<>>
                                         /\ ret.previous_close = <<>>
            /\ n = 1 => ret.previous_close = <<>>

\* three results whose closes all differ have been transformed
C39_Witness ==
    /\ Transformed
    /\ Len(UpstreamResults) = 3
    /\ \A i, j \in DOMAIN UpstreamResults :
          i # j => UpstreamResults[i].c # UpstreamResults[j].c
    /\ shaping.ret.current_price = Some(UpstreamResults[3].c)
    /\ shaping.ret.previous_close = Some(UpstreamResults[2].c)

====
